---- MODULE Spec2Model ----
(***************************************************************************)
(* Per-server JSON store of the goals bot (GoalsDatabase in                *)
(* src/goals_bot.py) and the command handlers that drive it.               *)
(*                                                                         *)
(* The filesystem is a function from file names to contents.  A file's     *)
(* content is classified by the decision points of load_goals: missing,    *)
(* blank (strip() is empty), garbage / torn (json.loads raises             *)
(* JSONDecodeError) or json (json.loads returns a value).                  *)
(*                                                                         *)
(* Spec is the store and its first handlers on a filesystem whose          *)
(* operations all succeed.  SpecF additionally lets each open, read,       *)
(* write, rename and replace of a store call fail, as an OSError would.    *)
(* SpecCmd and SpecAdmin are the commands of setup_commands.py in one      *)
(* guild, SpecRace is save_goals statement by statement in two execution   *)
(* contexts, and SpecFmt applies format_section to bounded texts.          *)
(* SpecLines applies it to texts made of whole lines and SpecClean applies *)
(* clean_text to wrapped payloads.  SpecList and SpecHistory are the list  *)
(* and view_progress commands on stored documents.  SpecLoop and           *)
(* SpecCreate are two command coroutines of one guild on the event loop,   *)
(* a step being the code between two awaits.                               *)
(***************************************************************************)
EXTENDS Integers, Sequences, FiniteSets, TLC

\* ---------------------------------------------------------------- bounds
MaxTime == 1            \* distinct wall-clock seconds a load may observe
MaxObjectives == 2      \* objectives a handler may create per document

\* ------------------------------------------------------------- constants
Servers == {"123456789", "987654321"}
BaseFilename == "goals"
FieldNames == {"objectives", "updates", "metrics"}
Times == 1..MaxTime

\* ------------------------------------------------------- JSON documents
\* A JSON object read from or written to a backing file.  `present` is the
\* set of top-level keys the object has; a key that is not present carries
\* the empty container as a placeholder.  Mappings are sets of entries.
DefaultData ==
    [present |-> FieldNames, objectives |-> {}, updates |-> <<>>, metrics |-> {}]

EmptyObject == [DefaultData EXCEPT !.present = {}]

IsDocument(v) == FieldNames \subseteq v.present

Digits == <<"0", "1", "2", "3", "4", "5", "6", "7", "8", "9">>

RECURSIVE DecimalStr(_)
DecimalStr(n) ==
    IF n < 10 THEN Digits[n + 1]
    ELSE DecimalStr(n \div 10) \o Digits[(n % 10) + 1]

\* str(ctx.author.id) of the context each guild's commands arrive with
AuthorOf == [s \in Servers |-> s]

\* the number of objectives, as the new id
NextObjectiveId_Count(objs) == DecimalStr(Cardinality(objs))

\* objective_id = str(len(server_goals["objectives"]) + 1)
NextObjectiveId(objs) == DecimalStr(Cardinality(objs) + 1)
NewObjective(id, by) == [id |-> id, status |-> "active", created_by |-> by]

\* server_goals["objectives"][objective_id] = {...}
PutObjective(objs, o) == {e \in objs : e.id # o.id} \cup {o}

\* --------------------------------------------------------- file contents
Missing == [kind |-> "missing", value |-> EmptyObject]
Blank   == [kind |-> "blank",   value |-> EmptyObject]
Garbage == [kind |-> "garbage", value |-> EmptyObject]
Torn    == [kind |-> "torn",    value |-> EmptyObject]

\* json.dump(doc, f, indent=2, default=str): every value the handlers store
\* is a str, a dict or a list, so the default=str fallback never applies.
Dump(v) == [kind |-> "json", value |-> v]
\* json.loads(content) for content it accepts
Loads(c) == c.value
Exists(c) == c.kind # "missing"
IsBlank(c) == c.kind = "blank"
IsMalformed(c) == c.kind \in {"garbage", "torn"}

\* ------------------------------------------------------------ file names
\* one file for every server
get_server_filename_Shared(s) ==
    [base |-> BaseFilename, sid |-> "", ext |-> <<".json">>]
get_server_filename(s) == [base |-> BaseFilename, sid |-> s, ext |-> <<".json">>]
BackupName(fn) == [fn EXCEPT !.ext = fn.ext \o <<".backup">>]
QuarantineName(fn, t) == [fn EXCEPT !.ext = fn.ext \o <<".backup-", t>>]

Names ==
    UNION {{get_server_filename(s), BackupName(get_server_filename(s))}
           \cup {QuarantineName(get_server_filename(s), t) : t \in Times}
           : s \in Servers}

QuarantineNames(s) == {QuarantineName(get_server_filename(s), t) : t \in Times}

\* ---------------------------------------------------------------- faults
\* How a filesystem step of a store call can fail.  "open": the open (or
\* the read) raises before anything is changed; "trunc": the target was
\* opened for writing, hence truncated, and nothing reached it; "torn": the
\* write raised part-way and a prefix of the text is left in the target.
LoadFaults == {"none", "read", "rename", "open", "torn"}
CopyFaults == {"none", "open", "trunc"}
WriteFaults == {"none", "open", "torn"}
ReplaceFaults == {"none", "fail"}

\* The faults of one save_goals call: <<copy, write, replace>>.  The replace
\* runs only after a failed write.
SavePlans ==
    {p \in CopyFaults \X WriteFaults \X ReplaceFaults : p[2] = "none" => p[3] = "none"}
NoSaveFault == {<<"none", "none", "none">>}
NoLoadFault == {"none"}

\* ------------------------------------------------------------ load_goals
\* with open(filename, 'w') as f: json.dump(default_data, f, indent=2)
WriteDefault(fs, fn, f) ==
    IF f = "open" THEN [fs |-> fs, raised |-> TRUE]
    ELSE IF f = "torn" THEN [fs |-> [fs EXCEPT ![fn] = Torn], raised |-> TRUE]
    ELSE [fs |-> [fs EXCEPT ![fn] = Dump(DefaultData)], raised |-> FALSE]

\* load_goals returning the default document without creating the file
LoadMissing_NoCreate(fs, s, f) ==
    [fs |-> fs, ret |-> DefaultData, raised |-> FALSE]

LoadMissing(fs, s, f) ==
    LET w == WriteDefault(fs, get_server_filename(s), f)
    IN  [fs |-> w.fs, ret |-> DefaultData, raised |-> w.raised]

\* load_goals treating an empty file as it treats a malformed one
LoadEmpty_Quarantine(fs, s, f) ==
    LET fn == get_server_filename(s)
        moved == [fs EXCEPT ![QuarantineName(fn, 1)] = fs[fn], ![fn] = Missing]
        w == WriteDefault(moved, fn, f)
    IN  [fs |-> w.fs, ret |-> DefaultData, raised |-> w.raised]

LoadEmpty(fs, s, f) ==
    LET w == WriteDefault(fs, get_server_filename(s), f)
    IN  [fs |-> w.fs, ret |-> DefaultData, raised |-> w.raised]

\* load_goals overwriting a malformed file instead of renaming it
LoadMalformed_Overwrite(fs, s, t, f) ==
    LET w == WriteDefault(fs, get_server_filename(s), f)
    IN  [fs |-> w.fs, ret |-> DefaultData, raised |-> w.raised]

LoadMalformed(fs, s, t, f) ==
    LET fn == get_server_filename(s)
        q  == QuarantineName(fn, t)
    IN  IF f = "rename" THEN [fs |-> fs, ret |-> DefaultData, raised |-> TRUE]
        ELSE LET moved == [fs EXCEPT ![q] = fs[fn], ![fn] = Missing]
                 w == WriteDefault(moved, fn, f)
             IN  [fs |-> w.fs, ret |-> DefaultData, raised |-> w.raised]

load_goals(fs, s, t, f) ==
    LET fn == get_server_filename(s)
    IN  IF ~Exists(fs[fn]) THEN LoadMissing(fs, s, f)
        ELSE IF f = "read" THEN [fs |-> fs, ret |-> DefaultData, raised |-> TRUE]
        ELSE IF IsBlank(fs[fn]) THEN LoadEmpty(fs, s, f)
        ELSE IF IsMalformed(fs[fn]) THEN LoadMalformed(fs, s, t, f)
        ELSE [fs |-> fs, ret |-> Loads(fs[fn]), raised |-> FALSE]

\* ------------------------------------------------------------- get_goals
NotLoaded == [loaded |-> FALSE, doc |-> EmptyObject]
Cached(v) == [loaded |-> TRUE, doc |-> v]

\* get_goals loading on every call
get_goals_Reload(cache, fs, s, t, f) ==
    LET r == load_goals(fs, s, t, f)
    IN  IF r.raised
        THEN [fs |-> r.fs, cache |-> cache, ret |-> r.ret, raised |-> TRUE]
        ELSE [fs |-> r.fs, cache |-> [cache EXCEPT ![s] = Cached(r.ret)],
              ret |-> r.ret, raised |-> FALSE]

get_goals(cache, fs, s, t, f) ==
    IF cache[s].loaded
    THEN [fs |-> fs, cache |-> cache, ret |-> cache[s].doc, raised |-> FALSE]
    ELSE LET r == load_goals(fs, s, t, f)
         IN  IF r.raised
             THEN [fs |-> r.fs, cache |-> cache, ret |-> r.ret, raised |-> TRUE]
             ELSE [fs |-> r.fs, cache |-> [cache EXCEPT ![s] = Cached(r.ret)],
                   ret |-> r.ret, raised |-> FALSE]

\* ------------------------------------------------------------ save_goals
\* with open(filename,'r') as original: with open(backup_name,'w') as backup:
\*     backup.write(original.read())          -- every Exception is logged
BackupCopy(fs, s, fb) ==
    LET fn == get_server_filename(s)
        bk == BackupName(fn)
    IN  IF fb = "open" THEN fs
        ELSE IF fb = "trunc" THEN [fs EXCEPT ![bk] = Blank]
        ELSE [fs EXCEPT ![bk] = fs[fn]]

\* with open(filename,'w') as f: json.dump(self.server_data[server_id], f, ...)
WriteGoals(fs, s, doc, fw) ==
    LET fn == get_server_filename(s)
    IN  IF fw = "open" THEN [fs |-> fs, failed |-> TRUE]
        ELSE IF fw = "torn" THEN [fs |-> [fs EXCEPT ![fn] = Torn], failed |-> TRUE]
        ELSE [fs |-> [fs EXCEPT ![fn] = Dump(doc)], failed |-> FALSE]

\* if os.path.exists(backup_name): os.replace(backup_name, filename)
\* (runs inside the except block, so a failing replace propagates)
RestoreBackup(fs, s, fr) ==
    LET fn == get_server_filename(s)
        bk == BackupName(fn)
    IN  IF ~Exists(fs[bk]) THEN [fs |-> fs, raised |-> FALSE]
        ELSE IF fr = "fail" THEN [fs |-> fs, raised |-> TRUE]
        ELSE [fs |-> [fs EXCEPT ![fn] = fs[bk], ![bk] = Missing], raised |-> FALSE]

\* save_goals without the `server_id not in self.server_data` guard
save_goals_Unguarded(cache, fs, s, p) ==
    LET fn  == get_server_filename(s)
        had == Exists(fs[fn])
        fs1 == IF had THEN BackupCopy(fs, s, p[1]) ELSE fs
        w   == WriteGoals(fs1, s, cache[s].doc, p[2])
        r   == RestoreBackup(w.fs, s, p[3])
    IN  IF w.failed
        THEN [fs |-> r.fs, raised |-> r.raised,
              bfail |-> had /\ p[1] # "none", wfail |-> TRUE]
        ELSE [fs |-> w.fs, raised |-> FALSE,
              bfail |-> had /\ p[1] # "none", wfail |-> FALSE]

\* save_goals copying the primary to .backup after rewriting it
save_goals_BackupAfterWrite(cache, fs, s, p) ==
    IF ~cache[s].loaded
    THEN [fs |-> fs, raised |-> FALSE, bfail |-> FALSE, wfail |-> FALSE]
    ELSE LET fn  == get_server_filename(s)
             had == Exists(fs[fn])
             w   == WriteGoals(fs, s, cache[s].doc, p[2])
             fs1 == IF had THEN BackupCopy(w.fs, s, p[1]) ELSE w.fs
             r   == RestoreBackup(fs1, s, p[3])
         IN  IF w.failed
             THEN [fs |-> r.fs, raised |-> r.raised,
                   bfail |-> had /\ p[1] # "none", wfail |-> TRUE]
             ELSE [fs |-> fs1, raised |-> FALSE,
                   bfail |-> had /\ p[1] # "none", wfail |-> FALSE]

save_goals(cache, fs, s, p) ==
    IF ~cache[s].loaded
    THEN [fs |-> fs, raised |-> FALSE, bfail |-> FALSE, wfail |-> FALSE]
    ELSE LET fn  == get_server_filename(s)
             fb  == p[1]
             fw  == p[2]
             fr  == p[3]
             had == Exists(fs[fn])
             fs1 == IF had THEN BackupCopy(fs, s, fb) ELSE fs
             w   == WriteGoals(fs1, s, cache[s].doc, fw)
             r   == RestoreBackup(w.fs, s, fr)
         IN  IF w.failed
             THEN [fs |-> r.fs, raised |-> r.raised,
                   bfail |-> had /\ fb # "none", wfail |-> TRUE]
             ELSE [fs |-> w.fs, raised |-> FALSE,
                   bfail |-> had /\ fb # "none", wfail |-> FALSE]

\* ----------------------------------------------------------------- state
VARIABLES
    fs,            \* file name -> content
    server_data,   \* GoalsDatabase.server_data: server id -> cached document
    sent,          \* what the latest step sent with ctx.send
    lastGet,       \* the get_goals call of the latest step, as its caller saw it
    lastSave,      \* the save_goals call of the latest step, as its caller saw it
    savedOk,       \* server ids for which some save_goals has written the primary
    cmd,           \* the command or store call the latest step ran
    pending,       \* clear_all invocations waiting for their confirmation
    savers,        \* execution contexts inside save_goals, for SpecRace
    applied,       \* the latest application of a pure function, for SpecFmt
    tasks          \* the handler coroutines on the event loop, for SpecLoop

vars == <<fs, server_data, sent, lastGet, lastSave, savedOk, cmd, pending,
          savers, applied, tasks>>

\* what the store and the command handlers of Spec and SpecF never touch
others == <<pending, savers, applied, tasks>>

\* ---------------------------------------------------------------- messages
\* A ctx.send: plain content, or an Embed with its title and the parts its
\* description is formatted from.
Text(t) == [embed |-> FALSE, title |-> "", body |-> <<t>>]
EmbedMsg(title, body) == [embed |-> TRUE, title |-> title, body |-> body]

\* Embed(title="... Error Setting Objective",
\*       description=f"An error occurred: {str(e)}")
ErrorEmbed(e) == EmbedMsg("Error Setting Objective", <<"An error occurred: ", e>>)
NewObjectiveEmbed(id) == EmbedMsg("New Strategic Objective", <<"Objective ID: #", id>>)
ClearedEmbed ==
    EmbedMsg("Database Cleared", <<"All objectives and updates have been removed.">>)
OnlyAdministrators == Text("Only administrators can use this command!")

\* str(e) of the exceptions a handler can meet
ApiError == "API Error"
KeyErrorObjectives == "'objectives'"
OSErrorText == "OSError"
HTTPExceptionText == "HTTPException"

\* The command of a step: its name, the guild and the author of its context,
\* and the number of anthropic.messages.create calls it made.
NoArg == ""
Cmd(op, s, by, llm) ==
    [op |-> op, sid |-> s, by |-> by, llm |-> llm, id |-> NoArg, arg |-> NoArg]
NoCmd == Cmd("none", CHOOSE s \in Servers : TRUE, NoArg, 0)

NoFiles == [n \in Names |-> Missing]
NoCache == [s \in Servers |-> NotLoaded]

\* What the disk may hold for a server when the database object is built.
InitContents == {Missing, Blank, Garbage, Dump(EmptyObject), Dump(DefaultData)}

NoGet ==
    [called |-> FALSE, sid |-> CHOOSE s \in Servers : TRUE, at |-> 1,
     was_loaded |-> FALSE, pre |-> Missing, ret |-> EmptyObject, raised |-> FALSE]

NoSave ==
    [called |-> FALSE, sid |-> CHOOSE s \in Servers : TRUE,
     was_loaded |-> FALSE, pre |-> Missing,
     raised |-> FALSE, bfail |-> FALSE, wfail |-> FALSE, prior |-> FALSE]

\* cache and files are those the call started from
GetRecord(s, t, cache, files, r) ==
    [called |-> TRUE, sid |-> s, at |-> t,
     was_loaded |-> cache[s].loaded, pre |-> files[get_server_filename(s)],
     ret |-> r.ret, raised |-> r.raised]

SaveRecord(s, cache, files, r) ==
    [called |-> TRUE, sid |-> s,
     was_loaded |-> cache[s].loaded, pre |-> files[get_server_filename(s)],
     raised |-> r.raised, bfail |-> r.bfail, wfail |-> r.wfail,
     prior |-> s \in savedOk]

SavedAfter(s, cache, r) ==
    IF cache[s].loaded /\ ~r.wfail THEN savedOk \cup {s} ELSE savedOk

\* No execution context is inside save_goals; no pure function was applied.
NoSavers == <<>>
NoApplication == [fn |-> "none"]
NoTasks == <<>>

\* GoalsDatabase.__init__: self.server_data = {}
Init ==
    /\ fs \in {f \in [Names -> InitContents] :
                 \A n \in Names : n \notin {get_server_filename(s) : s \in Servers}
                                    => f[n] = Missing}
    /\ server_data = NoCache
    /\ sent = <<>>
    /\ lastGet = NoGet
    /\ lastSave = NoSave
    /\ savedOk = {}
    /\ cmd = NoCmd
    /\ pending = {}
    /\ savers = NoSavers
    /\ applied = NoApplication
    /\ tasks = NoTasks

\* ------------------------------------------------------------- operations
\* The filesystem steps a call goes through, hence the faults that can occur
\* in it, and whether it reads the clock (load_goals does so only when it
\* quarantines).
LoadFaultsAt(cache, files, s) ==
    LET c == files[get_server_filename(s)]
    IN  IF cache[s].loaded THEN {"none"}
        ELSE IF ~Exists(c) THEN {"none", "open", "torn"}
        ELSE IF IsBlank(c) THEN {"none", "read", "open", "torn"}
        ELSE IF IsMalformed(c) THEN LoadFaults
        ELSE {"none", "read"}

ClockAt(cache, files, s) ==
    IF ~cache[s].loaded /\ IsMalformed(files[get_server_filename(s)])
    THEN Times ELSE {1}

SavePlansAt(cache, files, s) ==
    IF ~cache[s].loaded THEN NoSaveFault
    ELSE {p \in SavePlans :
            /\ ~Exists(files[get_server_filename(s)]) => p[1] = "none"
            /\ ( /\ ~Exists(files[BackupName(get_server_filename(s))])
                 /\ (~Exists(files[get_server_filename(s)]) \/ p[1] = "open") )
               => p[3] = "none"}

\* db.get_goals(server_id), called directly
Get(s, F) ==
    \E f \in F \cap LoadFaultsAt(server_data, fs, s), t \in ClockAt(server_data, fs, s) :
        LET r == get_goals(server_data, fs, s, t, f)
        IN  /\ fs' = r.fs
            /\ server_data' = r.cache
            /\ lastGet' = GetRecord(s, t, server_data, fs, r)
            /\ lastSave' = NoSave
            /\ sent' = <<>>
            /\ cmd' = Cmd("get_goals", s, NoArg, 0)
            /\ UNCHANGED <<savedOk, others>>

\* db.save_goals(server_id), called directly
Save(s, P) ==
    \E p \in P \cap SavePlansAt(server_data, fs, s) :
        LET r == save_goals(server_data, fs, s, p)
        IN  /\ fs' = r.fs
            /\ lastSave' = SaveRecord(s, server_data, fs, r)
            /\ savedOk' = SavedAfter(s, server_data, r)
            /\ lastGet' = NoGet
            /\ sent' = <<>>
            /\ cmd' = Cmd("save_goals", s, NoArg, 0)
            /\ UNCHANGED <<server_data, others>>

\* what anthropic.messages.create did in a set_objective
CreateRaised == "create raised"
CreateReturned == "create returned"

\* the handler calling anthropic.messages.create a second time
SetObjectiveUpstreamFailure_Retry(s) ==
    /\ sent' = <<ErrorEmbed(ApiError)>>
    /\ lastGet' = NoGet
    /\ lastSave' = NoSave
    /\ cmd' = [Cmd("set_objective", s, AuthorOf[s], 2) EXCEPT !.arg = CreateRaised]
    /\ UNCHANGED <<fs, server_data, savedOk, others>>

\* CompanyAssistant._set_objective_impl, with the anthropic.messages.create
\* call raising
SetObjectiveUpstreamFailure(s) ==
    /\ sent' = <<ErrorEmbed(ApiError)>>
    /\ lastGet' = NoGet
    /\ lastSave' = NoSave
    /\ cmd' = [Cmd("set_objective", s, AuthorOf[s], 1) EXCEPT !.arg = CreateRaised]
    /\ UNCHANGED <<fs, server_data, savedOk, others>>

\* CompanyAssistant._set_objective_impl, with the anthropic.messages.create
\* call returning.  A load that raises ends the handler before the save.
\* O is what the ctx.send of the new objective's embed may do: "ok", or
\* "fail" when it raises (discord.HTTPException), which the handler's
\* except clause catches like any other exception.
SetObjective(s, F, P, O) ==
    \E f \in F \cap LoadFaultsAt(server_data, fs, s), t \in ClockAt(server_data, fs, s),
       p \in P, o \in O :
        /\ f = "none" \/ p \in NoSaveFault
        /\ cmd' = [Cmd("set_objective", s, AuthorOf[s], 1) EXCEPT !.arg = CreateReturned]
        /\ UNCHANGED others
        /\ LET g == get_goals(server_data, fs, s, t, f)
           IN  /\ lastGet' = GetRecord(s, t, server_data, fs, g)
               /\ IF g.raised \/ "objectives" \notin g.ret.present
                  THEN \* OSError from the load, or KeyError on ["objectives"]
                       /\ p \in NoSaveFault
                       /\ o = "ok"
                       /\ fs' = g.fs
                       /\ server_data' = g.cache
                       /\ sent' = <<ErrorEmbed(IF g.raised THEN OSErrorText
                                                ELSE KeyErrorObjectives)>>
                       /\ lastSave' = NoSave
                       /\ UNCHANGED savedOk
                  ELSE /\ f = "none"
                       /\ Cardinality(g.ret.objectives) < MaxObjectives
                       /\ LET id    == NextObjectiveId(g.ret.objectives)
                              doc   == [g.ret EXCEPT !.objectives =
                                           PutObjective(@, NewObjective(id, AuthorOf[s]))]
                              cache == [g.cache EXCEPT ![s] = Cached(doc)]
                              r     == save_goals(cache, g.fs, s, p)
                          IN  /\ p \in SavePlansAt(cache, g.fs, s)
                              /\ server_data' = cache
                              /\ fs' = r.fs
                              /\ lastSave' = SaveRecord(s, cache, g.fs, r)
                              /\ savedOk' = SavedAfter(s, cache, r)
                              /\ r.raised => o = "ok"
                              /\ sent' = IF r.raised
                                         THEN <<ErrorEmbed(OSErrorText)>>
                                         ELSE IF o = "fail"
                                         THEN <<ErrorEmbed(HTTPExceptionText)>>
                                         ELSE <<NewObjectiveEmbed(id)>>

\* CompanyAssistant._clear_all_impl, invoked by someone who is no administrator
ClearAllDenied(s) ==
    /\ sent' = <<OnlyAdministrators>>
    /\ lastGet' = NoGet
    /\ lastSave' = NoSave
    /\ cmd' = Cmd("_clear_all_impl", s, NoArg, 0)
    /\ UNCHANGED <<fs, server_data, savedOk, others>>

\* CompanyAssistant._clear_all_impl, invoked by an administrator
ClearAll(s, P) ==
    \E p \in P \cap SavePlansAt([server_data EXCEPT ![s] = Cached(DefaultData)], fs, s) :
        LET cache == [server_data EXCEPT ![s] = Cached(DefaultData)]
            r     == save_goals(cache, fs, s, p)
        IN  /\ server_data' = cache
            /\ fs' = r.fs
            /\ lastSave' = SaveRecord(s, cache, fs, r)
            /\ savedOk' = SavedAfter(s, cache, r)
            /\ sent' = IF r.raised THEN <<>> ELSE <<ClearedEmbed>>
            /\ lastGet' = NoGet
            /\ cmd' = Cmd("_clear_all_impl", s, AuthorOf[s], 0)
            /\ UNCHANGED others

\* The process is started again: a new GoalsDatabase with an empty cache.
Restart ==
    /\ server_data # NoCache
    /\ server_data' = NoCache
    /\ sent' = <<>>
    /\ lastGet' = NoGet
    /\ lastSave' = NoSave
    /\ cmd' = NoCmd
    /\ UNCHANGED <<fs, savedOk, others>>

\* ---------------------------------------------------------- specifications
\* The filesystem never fails.
Next ==
    \/ \E s \in Servers : Get(s, NoLoadFault)
    \/ \E s \in Servers : Save(s, NoSaveFault)
    \/ \E s \in Servers : SetObjectiveUpstreamFailure(s)
    \/ \E s \in Servers : SetObjective(s, NoLoadFault, NoSaveFault, {"ok"})
    \/ \E s \in Servers : ClearAllDenied(s)
    \/ \E s \in Servers : ClearAll(s, NoSaveFault)
    \/ Restart

Spec == Init /\ [][Next]_vars

\* Every filesystem step of a store call may fail.  The store keeps the
\* servers apart (every operator above touches only the names and the cache
\* entry of its server), so the failing filesystem is explored for the
\* commands of one server, the others' files being absent.
FaultyServers == {"123456789"}

InitF ==
    /\ Init
    /\ \A s \in Servers \ FaultyServers : fs[get_server_filename(s)] = Missing

NextF ==
    \/ \E s \in FaultyServers : Get(s, LoadFaults)
    \/ \E s \in FaultyServers : Save(s, SavePlans)
    \/ \E s \in FaultyServers : SetObjectiveUpstreamFailure(s)
    \/ \E s \in FaultyServers : SetObjective(s, LoadFaults, SavePlans, {"ok"})
    \/ \E s \in FaultyServers : ClearAllDenied(s)
    \/ \E s \in FaultyServers : ClearAll(s, SavePlans)
    \/ Restart

SpecF == InitF /\ [][NextF]_vars

TypeOK ==
    /\ lastGet.at \in Times
    /\ DOMAIN fs = Names
    /\ DOMAIN server_data = Servers
    /\ savedOk \subseteq Servers

\* ================================================================ claims
\* A step that is a get_goals call and nothing else: fs and server_data are
\* the state the call started from, fs' and server_data' the state it left.
GetStep(s) == lastGet'.called /\ lastGet'.sid = s /\ ~lastSave'.called

\* A step whose save_goals call starts from fs with the cache server_data'
\* (save_goals never changes the cache).
SaveStep(s) ==
    /\ lastSave'.called /\ lastSave'.sid = s
    /\ lastGet'.called => lastGet'.was_loaded

Primary(s) == get_server_filename(s)
Backup(s) == BackupName(get_server_filename(s))

\* C1 -- After a save_goals whose write step failed, an earlier save of the
\* same identifier having succeeded, the primary file holds what it held
\* before the attempt.
C1_RollbackRestores ==
    [][\A s \in Servers :
         (SaveStep(s) /\ lastSave'.wfail /\ lastSave'.prior)
            => fs'[Primary(s)] = fs[Primary(s)]]_vars

C4_LoadNeverRaises ==
    lastGet.called => (~lastGet.raised /\ server_data[lastGet.sid].loaded)

\* C5 -- save_goals raises nothing, whichever filesystem step fails.
C5_SaveNeverRaises ==
    lastSave.called => ~lastSave.raised

\* C6 -- save_goals for an identifier that is not in the cache changes no
\* file and no cache entry, and raises nothing.
C6_NoOpSaveBeforeLoad ==
    [][\A s \in Servers :
         (lastSave'.called /\ lastSave'.sid = s /\ ~lastSave'.was_loaded)
            => /\ fs' = fs
               /\ server_data' = server_data
               /\ ~lastSave'.raised]_vars

\* save was called for an identifier that was never loaded, whose files are
\* absent, while another identifier has a file
C6_Witness ==
    /\ lastSave.called /\ ~lastSave.was_loaded
    /\ ~server_data[lastSave.sid].loaded
    /\ ~Exists(fs[Primary(lastSave.sid)])
    /\ ~Exists(fs[Backup(lastSave.sid)])
    /\ \E o \in Servers \ {lastSave.sid} : Exists(fs[Primary(o)])

\* C7 -- get_goals for a cached identifier returns the cached document and
\* touches neither a file nor the cache, also when the file holds something
\* else; and the document any get_goals returns is the one it leaves cached,
\* so that a second call returns the same contents.
C7_IdempotentLoad ==
    [][\A s \in Servers :
         GetStep(s)
            => /\ lastGet'.was_loaded
                  => /\ ~lastGet'.raised
                     /\ lastGet'.ret = server_data[s].doc
                     /\ fs' = fs
                     /\ server_data' = server_data
               /\ ~lastGet'.raised => server_data'[s] = Cached(lastGet'.ret)]_vars

\* a get of a cached identifier whose file no longer holds the cached document
C7_Witness ==
    /\ lastGet.called /\ ~lastSave.called /\ lastGet.was_loaded
    /\ fs[Primary(lastGet.sid)] # Dump(server_data[lastGet.sid].doc)
    /\ lastGet.ret = server_data[lastGet.sid].doc
    /\ lastGet.ret.objectives # {}

\* C8 -- get_goals for an identifier without a backing file creates the file
\* <base>_<serverId>.json holding the default document, returns that
\* document and caches it.
C8_FirstAccessCreates ==
    [][\A s \in Servers :
         (GetStep(s) /\ ~lastGet'.was_loaded /\ ~Exists(fs[Primary(s)]))
            => /\ ~lastGet'.raised
               /\ lastGet'.ret = DefaultData
               /\ IsDocument(lastGet'.ret)
               /\ fs' = [fs EXCEPT
                           ![[base |-> BaseFilename, sid |-> s, ext |-> <<".json">>]]
                              = Dump(DefaultData)]
               /\ server_data' = [server_data EXCEPT ![s] = Cached(DefaultData)]]_vars

C8_Witness ==
    /\ lastGet.called /\ ~lastSave.called
    /\ ~lastGet.was_loaded /\ ~Exists(lastGet.pre) /\ ~lastGet.raised
    /\ fs[Primary(lastGet.sid)] = Dump(DefaultData)
    /\ server_data[lastGet.sid] = Cached(DefaultData)

\* C9 -- Every document get_goals returns has the three fields objectives,
\* updates and metrics.
C9_NoPartialLoads ==
    (lastGet.called /\ ~lastGet.raised) => IsDocument(lastGet.ret)

\* C10 -- get_goals for a not-yet-cached identifier whose file is empty
\* quarantines the file under a timestamped name, rewrites the primary with
\* the default document and returns the default document.
C10_EmptyIsQuarantined ==
    [][\A s \in Servers :
         (GetStep(s) /\ ~lastGet'.was_loaded /\ IsBlank(fs[Primary(s)]))
            => /\ ~lastGet'.raised
               /\ lastGet'.ret = DefaultData
               /\ fs'[Primary(s)] = Dump(DefaultData)
               /\ \E q \in QuarantineNames(s) :
                     ~Exists(fs[q]) /\ fs'[q] = fs[Primary(s)]]_vars

\* C10 amended -- get_goals for a not-yet-cached identifier whose file is
\* empty overwrites the file in place with the default document, creates no
\* quarantine file, returns the default document, caches it and raises
\* nothing.
C10_EmptyIsOverwritten ==
    [][\A s \in Servers :
         (GetStep(s) /\ ~lastGet'.was_loaded /\ IsBlank(fs[Primary(s)]))
            => /\ ~lastGet'.raised
               /\ lastGet'.ret = DefaultData
               /\ fs' = [fs EXCEPT ![Primary(s)] = Dump(DefaultData)]
               /\ \A q \in QuarantineNames(s) : fs'[q] = fs[q]
               /\ server_data' = [server_data EXCEPT ![s] = Cached(DefaultData)]]_vars

C10_Witness ==
    /\ lastGet.called /\ ~lastSave.called
    /\ ~lastGet.was_loaded /\ IsBlank(lastGet.pre) /\ ~lastGet.raised
    /\ lastGet.ret = DefaultData
    /\ fs[Primary(lastGet.sid)] = Dump(DefaultData)
    /\ \A q \in QuarantineNames(lastGet.sid) : ~Exists(fs[q])

\* The file names of a server: its primary, its .backup and its quarantines.
NamesOf(s) == {Primary(s), Backup(s)} \cup QuarantineNames(s)

\* C11 -- Two different server ids have different backing files, no file
\* name in common and separate cached documents: a command or store call of
\* one server leaves the cached document and every file of any other server
\* unchanged, and every objective of a server's cached document was created
\* in that server.
C11_MultiTenantIsolation ==
    [][ /\ \A a, b \in Servers :
             a # b => /\ Primary(a) # Primary(b)
                      /\ NamesOf(a) \cap NamesOf(b) = {}
        /\ \A a \in Servers :
             (cmd'.op # "none" /\ cmd'.sid = a)
                => \A b \in Servers \ {a} :
                      /\ server_data'[b] = server_data[b]
                      /\ \A n \in NamesOf(b) : fs'[n] = fs[n]
        /\ \A a \in Servers :
             \A o \in server_data'[a].doc.objectives : o.created_by = AuthorOf[a]
      ]_vars

\* An objective was created in each of the two servers: each document holds
\* exactly its own objective and both files exist.
C11_Witness ==
    /\ \A s \in Servers :
         /\ server_data[s].loaded
         /\ server_data[s].doc.objectives = {NewObjective("1", AuthorOf[s])}
         /\ fs[Primary(s)] = Dump(server_data[s].doc)
    /\ \E a, b \in Servers : server_data[a].doc # server_data[b].doc
    /\ cmd.op = "set_objective" /\ sent = <<NewObjectiveEmbed("1")>>

\* ======================================================= command handlers
\* The remaining commands of setup_commands.py, on a filesystem that does
\* not fail.
MaxUpdates == 2         \* progress updates a document may hold

Users == {"123456789", "987654321"}
\* the users whose permissions in the guild include administrator
Admins == {"123456789"}

\* objective_id arguments: the ids a document can hold, and one it cannot
UnknownId == "99"
IdInputs == {DecimalStr(i) : i \in 1..MaxObjectives} \cup {UnknownId}
UpdateTexts == {"Made progress on objective"}
\* str(datetime.datetime.now()) of an update: carried in the record, read by
\* no handler
UpdateTimes == {1}

valid_statuses == {"active", "completed", "cancelled"}
\* status arguments: one as stored, one in another case, one that is invalid
StatusInputs == {"completed", "Cancelled", "done"}

\* str.lower() on the status arguments
Lower(x) ==
    IF x = "Cancelled" THEN "cancelled" ELSE x

NotFound(id) ==
    [embed |-> FALSE, title |-> "", body |-> <<"Objective ", id, " not found!">>]
InvalidStatus == Text("Invalid status. Please use one of: active, completed, cancelled")
ProgressEmbed(id) == EmbedMsg("Progress Update Added", <<"Update added to Objective ", id>>)
StatusEmbed(id, status) ==
    EmbedMsg("Objective Updated", <<"Objective ", id, " status changed to: ", status>>)
ClearWarning ==
    Text("WARNING: This will delete ALL objectives and updates. React with the check mark to confirm.")
ClearCancelled == Text("Clear all operation cancelled (timed out)")

HasObjective(doc, id) == \E o \in doc.objectives : o.id = id

\* server_goals["objectives"][objective_id]["status"] = status
SetStatus(objs, id, status) ==
    {IF o.id = id THEN [o EXCEPT !.status = status] ELSE o : o \in objs}

NewUpdate(id, text, by, at) ==
    [objective_id |-> id, text |-> text, updated_by |-> by, updated_at |-> at]

\* A store call of a handler on the filesystem that does not fail.
GetOk(cache, files, s) == get_goals(cache, files, s, 1, "none")
SaveOk(cache, files, s) == save_goals(cache, files, s, <<"none", "none", "none">>)

\* What a handler leaves when it returns after get_goals without saving.
Unsaved(g, msgs) ==
    /\ fs' = g.fs
    /\ server_data' = g.cache
    /\ sent' = msgs
    /\ lastSave' = NoSave
    /\ UNCHANGED savedOk

\* What a handler leaves when it stores doc for s and saves.
Saved(g, s, doc, msgs) ==
    LET cache == [g.cache EXCEPT ![s] = Cached(doc)]
        r     == SaveOk(cache, g.fs, s)
    IN  /\ server_data' = cache
        /\ fs' = r.fs
        /\ lastSave' = SaveRecord(s, cache, g.fs, r)
        /\ savedOk' = SavedAfter(s, cache, r)
        /\ sent' = msgs

\* the update appended whether or not the objective exists
AddProgress_Unchecked(s) ==
    \E id \in IdInputs, text \in UpdateTexts, at \in UpdateTimes :
        LET g == GetOk(server_data, fs, s)
        IN  /\ cmd' = [Cmd("add_progress", s, AuthorOf[s], 0) EXCEPT !.id = id, !.arg = text]
            /\ lastGet' = GetRecord(s, 1, server_data, fs, g)
            /\ UNCHANGED others
            /\ IF "objectives" \notin g.ret.present THEN Unsaved(g, <<>>)
               ELSE IF "updates" \notin g.ret.present THEN Unsaved(g, <<>>)
               ELSE /\ Len(g.ret.updates) < MaxUpdates
                    /\ Saved(g, s,
                             [g.ret EXCEPT !.updates =
                                 Append(@, NewUpdate(id, text, AuthorOf[s], at))],
                             <<ProgressEmbed(id)>>)
\* update appended at the front of the list
AddProgress_Prepend(s) ==
    \E id \in IdInputs, text \in UpdateTexts, at \in UpdateTimes :
        LET g == GetOk(server_data, fs, s)
        IN  /\ cmd' = [Cmd("add_progress", s, AuthorOf[s], 0) EXCEPT !.id = id, !.arg = text]
            /\ lastGet' = GetRecord(s, 1, server_data, fs, g)
            /\ UNCHANGED others
            /\ IF "objectives" \notin g.ret.present THEN Unsaved(g, <<>>)
               ELSE IF ~HasObjective(g.ret, id) THEN Unsaved(g, <<NotFound(id)>>)
               ELSE IF "updates" \notin g.ret.present THEN Unsaved(g, <<>>)
               ELSE /\ Len(g.ret.updates) < MaxUpdates
                    /\ Saved(g, s,
                             [g.ret EXCEPT !.updates =
                                 <<NewUpdate(id, text, AuthorOf[s], at)>> \o @],
                             <<ProgressEmbed(id)>>)

\* CompanyAssistant._add_progress_impl.  A KeyError on a document that lacks
\* "objectives" or "updates" leaves the handler with nothing sent.
AddProgress(s) ==
    \E id \in IdInputs, text \in UpdateTexts, at \in UpdateTimes :
        LET g == GetOk(server_data, fs, s)
        IN  /\ cmd' = [Cmd("add_progress", s, AuthorOf[s], 0) EXCEPT !.id = id, !.arg = text]
            /\ lastGet' = GetRecord(s, 1, server_data, fs, g)
            /\ UNCHANGED others
            /\ IF "objectives" \notin g.ret.present THEN Unsaved(g, <<>>)
               ELSE IF ~HasObjective(g.ret, id) THEN Unsaved(g, <<NotFound(id)>>)
               ELSE IF "updates" \notin g.ret.present THEN Unsaved(g, <<>>)
               ELSE /\ Len(g.ret.updates) < MaxUpdates
                    /\ Saved(g, s,
                             [g.ret EXCEPT !.updates =
                                 Append(@, NewUpdate(id, text, AuthorOf[s], at))],
                             <<ProgressEmbed(id)>>)

\* the status stored as it was typed
UpdateStatus_AsTyped(s) ==
    \E id \in IdInputs, status \in StatusInputs :
        LET g == GetOk(server_data, fs, s)
        IN  /\ cmd' = [Cmd("update_status", s, AuthorOf[s], 0) EXCEPT !.id = id, !.arg = status]
            /\ lastGet' = GetRecord(s, 1, server_data, fs, g)
            /\ UNCHANGED others
            /\ IF "objectives" \notin g.ret.present THEN Unsaved(g, <<>>)
               ELSE IF ~HasObjective(g.ret, id) THEN Unsaved(g, <<NotFound(id)>>)
               ELSE IF Lower(status) \notin valid_statuses
                    THEN Unsaved(g, <<InvalidStatus>>)
               ELSE Saved(g, s,
                          [g.ret EXCEPT !.objectives = SetStatus(@, id, status)],
                          <<StatusEmbed(id, status)>>)

\* CompanyAssistant._update_objective_status_impl
UpdateStatus(s) ==
    \E id \in IdInputs, status \in StatusInputs :
        LET g == GetOk(server_data, fs, s)
        IN  /\ cmd' = [Cmd("update_status", s, AuthorOf[s], 0) EXCEPT !.id = id, !.arg = status]
            /\ lastGet' = GetRecord(s, 1, server_data, fs, g)
            /\ UNCHANGED others
            /\ IF "objectives" \notin g.ret.present THEN Unsaved(g, <<>>)
               ELSE IF ~HasObjective(g.ret, id) THEN Unsaved(g, <<NotFound(id)>>)
               ELSE IF Lower(status) \notin valid_statuses
                    THEN Unsaved(g, <<InvalidStatus>>)
               ELSE Saved(g, s,
                          [g.ret EXCEPT !.objectives = SetStatus(@, id, Lower(status))],
                          <<StatusEmbed(id, status)>>)

\* reset(serverId) of the store: the backing file is deleted if present and
\* the load path is run again; its result replaces the cached entry.
reset_goals(cache, files, s) ==
    LET fn == get_server_filename(s)
        removed == [files EXCEPT ![fn] = Missing]
        l == load_goals(removed, s, 1, "none")
    IN  [fs |-> l.fs, cache |-> [cache EXCEPT ![s] = Cached(l.ret)]]

\* The reset_railway command.  commands.has_permissions(administrator=True)
\* raises MissingPermissions for any other author, before the body runs.
ResetRailway(s) ==
    \E u \in Users :
        /\ lastGet' = NoGet
        /\ lastSave' = NoSave
        /\ sent' = <<>>
        /\ UNCHANGED <<savedOk, others>>
        /\ IF u \notin Admins
           THEN /\ cmd' = [Cmd("reset_railway", s, u, 0) EXCEPT !.arg = "denied"]
                /\ UNCHANGED <<fs, server_data>>
           ELSE LET r == reset_goals(server_data, fs, s)
                IN  /\ cmd' = [Cmd("reset_railway", s, u, 0) EXCEPT !.arg =
                                  IF Exists(fs[get_server_filename(s)])
                                  THEN "removed" ELSE "absent"]
                    /\ fs' = r.fs
                    /\ server_data' = r.cache

\* The clear_all command up to its wait_for: the warning is sent and the
\* command waits for a reaction.  pending holds the (guild, author) pairs
\* that have a clear_all waiting; a reaction_add event is dispatched to every
\* waiting wait_for, so the invocations of one author in one guild are
\* confirmed together and are kept as one entry.
ClearAllInvoke(s) ==
    \E u \in Users :
        /\ lastGet' = NoGet
        /\ lastSave' = NoSave
        /\ UNCHANGED <<fs, server_data, savedOk, savers, applied, tasks>>
        /\ IF u \notin Admins
           THEN /\ cmd' = [Cmd("clear_all", s, u, 0) EXCEPT !.arg = "denied"]
                /\ sent' = <<>>
                /\ UNCHANGED pending
           ELSE /\ cmd' = [Cmd("clear_all", s, u, 0) EXCEPT !.arg = "waiting"]
                /\ sent' = <<ClearWarning>>
                /\ pending' = pending \cup {[sid |-> s, by |-> u]}

CheckMark == "white_check_mark"
Emojis == {CheckMark, "x"}

\* check(reaction, user) of clear_all
check(q, user, emoji) == user = q.by /\ emoji = CheckMark

\* any reaction confirms
check_Any(q, user, emoji) == TRUE

\* A reaction_add event reaches a waiting clear_all.  wait_for returns for
\* the first event that passes check, and the command goes on to
\* _clear_all_impl; any other event leaves it waiting.
ClearAllReaction(s) ==
    \E q \in pending, user \in Users, emoji \in Emojis :
        /\ q.sid = s
        /\ lastGet' = NoGet
        /\ UNCHANGED <<savers, applied, tasks>>
        /\ IF ~check(q, user, emoji)
           THEN /\ cmd' = [Cmd("clear_all", s, q.by, 0) EXCEPT !.arg = "ignored"]
                /\ sent' = <<>>
                /\ lastSave' = NoSave
                /\ UNCHANGED <<fs, server_data, savedOk, pending>>
           ELSE /\ cmd' = [Cmd("clear_all", s, q.by, 0) EXCEPT !.arg = "confirmed"]
                /\ pending' = pending \ {q}
                /\ IF q.by \notin Admins
                   THEN /\ sent' = <<OnlyAdministrators>>
                        /\ lastSave' = NoSave
                        /\ UNCHANGED <<fs, server_data, savedOk>>
                   ELSE LET cache == [server_data EXCEPT ![s] = Cached(DefaultData)]
                            r     == SaveOk(cache, fs, s)
                        IN  /\ server_data' = cache
                            /\ fs' = r.fs
                            /\ lastSave' = SaveRecord(s, cache, fs, r)
                            /\ savedOk' = SavedAfter(s, cache, r)
                            /\ sent' = <<ClearedEmbed>>

\* Whether the asyncio.TimeoutError that wait_for raises is the builtin
\* TimeoutError named by the except clause of clear_all: it is from
\* Python 3.11 on, and a different class in the older interpreters that
\* discord.py 2.3 also runs on.
TimeoutCaught == BOOLEAN

\* The wait_for of a waiting clear_all times out.
ClearAllTimeout(s) ==
    \E q \in pending, caught \in TimeoutCaught :
        /\ q.sid = s
        /\ cmd' = [Cmd("clear_all", s, q.by, 0) EXCEPT !.arg = "timeout"]
        /\ pending' = pending \ {q}
        /\ sent' = IF caught THEN <<ClearCancelled>> ELSE <<>>
        /\ lastGet' = NoGet
        /\ lastSave' = NoSave
        /\ UNCHANGED <<fs, server_data, savedOk, savers, applied, tasks>>

\* The commands that create and change objectives and updates, in one guild.
CmdServers == {"123456789"}
SendOutcomes == {"ok", "fail"}

\* The guild's file is absent or holds a document.
InitC ==
    /\ Init
    /\ \A s \in Servers \ CmdServers : fs[get_server_filename(s)] = Missing
    /\ \A s \in CmdServers :
          fs[get_server_filename(s)] \in {Missing, Blank, Dump(DefaultData)}

NextC ==
    \/ \E s \in CmdServers : SetObjectiveUpstreamFailure(s)
    \/ \E s \in CmdServers : SetObjective(s, NoLoadFault, NoSaveFault, SendOutcomes)
    \/ \E s \in CmdServers : AddProgress(s)
    \/ \E s \in CmdServers : UpdateStatus(s)
    \/ \E s \in CmdServers : ClearAll(s, NoSaveFault)

SpecCmd == InitC /\ [][NextC]_vars

\* The administrative commands of one guild, with the commands that give
\* them something to remove.
NextA ==
    \/ \E s \in CmdServers : SetObjective(s, NoLoadFault, NoSaveFault, {"ok"})
    \/ \E s \in CmdServers : AddProgress(s)
    \/ \E s \in CmdServers : ClearAllInvoke(s)
    \/ \E s \in CmdServers : ClearAllReaction(s)
    \/ \E s \in CmdServers : ClearAllTimeout(s)
    \/ \E s \in CmdServers : ResetRailway(s)

SpecAdmin == InitC /\ [][NextA]_vars

ObjectiveIds(doc) == {o.id : o \in doc.objectives}

\* C13 -- The ids of a cached document are exactly "1", ..., "n", one
\* objective per id, and a set_objective that stores an objective adds it
\* under the decimal string of the number of objectives it found plus one,
\* keeping every objective it found.
C13_SequentialIds ==
    [][\A s \in Servers :
         /\ LET objs == server_data'[s].doc.objectives
            IN  /\ ObjectiveIds(server_data'[s].doc)
                      = {DecimalStr(i) : i \in 1..Cardinality(objs)}
                /\ Cardinality(ObjectiveIds(server_data'[s].doc)) = Cardinality(objs)
         /\ (cmd'.op = "set_objective" /\ cmd'.sid = s /\ lastSave'.called)
               => LET before == lastGet'.ret.objectives
                      after  == server_data'[s].doc.objectives
                      id     == DecimalStr(Cardinality(before) + 1)
                  IN  /\ before \subseteq after
                      /\ after \ before = {NewObjective(id, cmd'.by)}
                      /\ id \notin {o.id : o \in before}]_vars

\* A second objective was created after progress was added to the first and
\* its status was changed.
C13_Witness ==
    /\ cmd.op = "set_objective" /\ lastSave.called
    /\ ObjectiveIds(server_data[cmd.sid].doc) = {"1", "2"}
    /\ server_data[cmd.sid].doc.updates # <<>>
    /\ \E o \in server_data[cmd.sid].doc.objectives : o.id = "1" /\ o.status # "active"
    /\ \E o \in server_data[cmd.sid].doc.objectives : o.id = "2" /\ o.status = "active"

\* The document a get_goals of s would return: the cached one, or the one
\* load_goals makes of the server's file.
DocumentOf(cache, files, s) ==
    IF cache[s].loaded THEN cache[s].doc
    ELSE IF files[Primary(s)].kind = "json" THEN Loads(files[Primary(s)])
    ELSE DefaultData

Range(seq) == {seq[i] : i \in DOMAIN seq}

ReportsFailure(msgs) == \E i \in DOMAIN msgs : msgs[i] = ErrorEmbed(msgs[i].body[2])

\* C15 -- When set_objective sends the 'Error Setting Objective' embed, that
\* embed is the only message of the command and the server's document is
\* what it was before the command, in memory and on disk: no objective was
\* stored.
C15_NoPartialStateOnFailure ==
    [][\A s \in Servers :
         (cmd'.op = "set_objective" /\ cmd'.sid = s /\ ReportsFailure(sent'))
            => /\ Len(sent') = 1
               /\ DocumentOf(server_data', fs', s) = DocumentOf(server_data, fs, s)
               /\ DocumentOf(NoCache, fs', s) = DocumentOf(NoCache, fs, s)]_vars

\* C16 -- When anthropic.messages.create raises in set_objective, the call
\* is made once, exactly one message is sent, the 'Error Setting Objective'
\* embed whose description carries the text of the failure, and neither
\* get_goals nor save_goals is called: cache and files are unchanged.
C16_UpstreamFailure ==
    [][\A s \in Servers :
         (cmd'.op = "set_objective" /\ cmd'.sid = s /\ cmd'.arg = CreateRaised)
            => /\ cmd'.llm = 1
               /\ Len(sent') = 1
               /\ sent'[1].embed /\ sent'[1].title = "Error Setting Objective"
               /\ ApiError \in Range(sent'[1].body)
               /\ ~lastGet'.called /\ ~lastSave'.called
               /\ server_data' = server_data
               /\ fs' = fs]_vars

\* The upstream call failed for a server whose document holds an objective.
C16_Witness ==
    /\ cmd.op = "set_objective" /\ cmd.arg = CreateRaised
    /\ sent = <<ErrorEmbed(ApiError)>>
    /\ server_data[cmd.sid].loaded
    /\ ObjectiveIds(server_data[cmd.sid].doc) = {"1"}
    /\ fs[Primary(cmd.sid)] = Dump(server_data[cmd.sid].doc)

\* C17 -- Every objective of a cached document has a status among active,
\* completed and cancelled, and a new objective is active.  An update_status
\* for an id the document does not hold, or for a status whose lower-case
\* form is not one of the three, leaves the document unchanged and does not
\* call save_goals; any other update_status stores the lower-cased status
\* under that id, changes nothing else and saves the document.
C17_StatusValidity ==
    [][\A s \in Servers :
         /\ \A o \in server_data'[s].doc.objectives : o.status \in valid_statuses
         /\ (cmd'.op = "set_objective" /\ cmd'.sid = s /\ lastSave'.called)
               => \A o \in server_data'[s].doc.objectives \ lastGet'.ret.objectives :
                     o.status = "active"
         /\ (cmd'.op = "update_status" /\ cmd'.sid = s)
               => LET before == DocumentOf(server_data, fs, s)
                      after  == DocumentOf(server_data', fs', s)
                  IN  IF \/ ~HasObjective(before, cmd'.id)
                         \/ Lower(cmd'.arg) \notin valid_statuses
                      THEN after = before /\ ~lastSave'.called
                      ELSE /\ lastSave'.called /\ ~lastSave'.raised
                           /\ after = [before EXCEPT !.objectives =
                                         {IF o.id = cmd'.id
                                          THEN [o EXCEPT !.status = Lower(cmd'.arg)]
                                          ELSE o : o \in before.objectives}]
                           /\ fs'[Primary(s)] = Dump(after)]_vars

\* An update_status typed as "Cancelled" has stored "cancelled" for the
\* first of two objectives and saved.
C17_Witness ==
    /\ cmd.op = "update_status" /\ cmd.id = "1" /\ cmd.arg = "Cancelled"
    /\ lastSave.called
    /\ [id |-> "1", status |-> "cancelled", created_by |-> AuthorOf[cmd.sid]]
          \in server_data[cmd.sid].doc.objectives
    /\ ObjectiveIds(server_data[cmd.sid].doc) = {"1", "2"}
    /\ fs[Primary(cmd.sid)] = Dump(server_data[cmd.sid].doc)
IsPrefix(a, b) == Len(a) <= Len(b) /\ SubSeq(b, 1, Len(a)) = a

\* An add_progress for an objective the document holds appends exactly one
\* record, made of its arguments, at the end of updates and saves.
AppendsOne(s) ==
    LET before == DocumentOf(server_data, fs, s)
        after  == DocumentOf(server_data', fs', s)
    IN  (cmd'.op = "add_progress" /\ cmd'.sid = s /\ HasObjective(before, cmd'.id))
           => /\ Len(after.updates) = Len(before.updates) + 1
              /\ IsPrefix(before.updates, after.updates)
              /\ LET u == after.updates[Len(after.updates)]
                 IN  /\ u.objective_id = cmd'.id
                     /\ u.text = cmd'.arg
                     /\ u.updated_by = cmd'.by
                     /\ u.updated_at \in UpdateTimes
              /\ after.objectives = before.objectives
              /\ lastSave'.called /\ ~lastSave'.raised
              /\ fs'[Primary(s)] = Dump(after)

ConfirmedClear(s) == cmd'.op = "clear_all" /\ cmd'.sid = s /\ cmd'.arg = "confirmed"
AdmittedReset(s) == cmd'.op = "reset_railway" /\ cmd'.sid = s /\ cmd'.arg # "denied"

StoreUnchanged == server_data' = server_data /\ fs' = fs

\* C19 -- A clear_all empties the server's document exactly when its
\* invoker is an administrator and the invoker's check-mark reaction arrives
\* while it waits.  The warning is sent when the wait begins and changes
\* nothing; the confirmation leaves the default document in memory and on
\* disk and sends the 'Database Cleared' embed; an invocation by someone
\* else, any other reaction and a timeout leave cache and files unchanged,
\* and the timeout sends 'Clear all operation cancelled (timed out)'.
C19_ClearAllOnlyWhenConfirmed ==
    [][\A s \in Servers :
         (cmd'.op = "clear_all" /\ cmd'.sid = s)
            => LET q == [sid |-> s, by |-> cmd'.by]
               IN  /\ cmd'.arg = "denied"
                        => cmd'.by \notin Admins /\ StoreUnchanged /\ sent' = <<>>
                   /\ cmd'.arg = "waiting"
                        => /\ cmd'.by \in Admins /\ StoreUnchanged
                           /\ sent' = <<ClearWarning>> /\ q \in pending'
                   /\ cmd'.arg = "ignored"
                        => StoreUnchanged /\ q \in pending'
                   /\ cmd'.arg = "confirmed"
                        => /\ cmd'.by \in Admins /\ q \in pending
                           /\ server_data'[s] = Cached(DefaultData)
                           /\ fs'[Primary(s)] = Dump(DefaultData)
                           /\ sent' = <<ClearedEmbed>>
                   /\ cmd'.arg = "timeout"
                        => /\ q \in pending /\ q \notin pending'
                           /\ StoreUnchanged
                           /\ sent' = <<ClearCancelled>>]_vars
\* ================================================ save_goals, step by step
\* Two execution contexts run a handler that stores an objective and calls
\* save_goals for the same server.  Each statement of save_goals that
\* touches the filesystem is a step, and the steps of the two contexts
\* interleave freely: save_goals takes no lock.  The text that json.dump
\* writes stays in the buffer of the file object until the with block closes
\* the file.
Contexts == {"A", "B"}
RaceServer == "123456789"

Idle == [pc |-> "idle", buf |-> EmptyObject, pre |-> Missing]
InsidePcs == {"exists", "copy", "open", "dump", "close"}

Size(doc) == Cardinality(doc.objectives) + Len(doc.updates)

\* What a file holds after a file object opened on it earlier flushes text at
\* offset 0: the text, unless the file has meanwhile received a longer text,
\* whose tail then stays behind the flushed one.
FlushOutcomes(content, buf) ==
    IF content.kind = "json" /\ Size(content.value) > Size(buf) THEN {Torn}
    ELSE IF content.kind \in {"torn", "garbage"} THEN {Torn, Dump(buf)}
    ELSE {Dump(buf)}

RaceFrame == UNCHANGED <<sent, lastGet, savedOk, cmd, pending, applied, tasks>>

\* the handler up to its save_goals call:
\*   server_goals["objectives"][objective_id] = {...}
RaceEnter(c) ==
    /\ savers[c].pc \in {"idle", "done"}
    /\ Cardinality(server_data[RaceServer].doc.objectives) < MaxObjectives
    /\ LET doc == server_data[RaceServer].doc
           id  == NextObjectiveId(doc.objectives)
       IN  server_data' = [server_data EXCEPT ![RaceServer] =
               Cached([doc EXCEPT !.objectives =
                          PutObjective(@, NewObjective(id, AuthorOf[RaceServer]))])]
    /\ savers' = [savers EXCEPT ![c] = [Idle EXCEPT !.pc = "exists"]]
    /\ UNCHANGED <<fs, lastSave>> /\ RaceFrame

\* if os.path.exists(filename):
RaceExists(c) ==
    /\ savers[c].pc = "exists"
    /\ savers' = [savers EXCEPT ![c].pc =
                     IF Exists(fs[get_server_filename(RaceServer)])
                     THEN "copy" ELSE "open"]
    /\ UNCHANGED <<fs, server_data, lastSave>> /\ RaceFrame

\* backup.write(original.read())
RaceCopy(c) ==
    /\ savers[c].pc = "copy"
    /\ fs' = BackupCopy(fs, RaceServer, "none")
    /\ savers' = [savers EXCEPT ![c].pc = "open"]
    /\ UNCHANGED <<server_data, lastSave>> /\ RaceFrame

\* with open(filename, 'w') as f:
RaceOpen(c) ==
    /\ savers[c].pc = "open"
    /\ fs' = [fs EXCEPT ![get_server_filename(RaceServer)] = Blank]
    /\ savers' = [savers EXCEPT ![c].pc = "dump",
                                ![c].pre = fs[get_server_filename(RaceServer)]]
    /\ UNCHANGED <<server_data, lastSave>> /\ RaceFrame

\* json.dump(self.server_data[server_id], f, indent=2, default=str)
RaceDump(c) ==
    /\ savers[c].pc = "dump"
    /\ savers' = [savers EXCEPT ![c].pc = "close",
                                ![c].buf = server_data[RaceServer].doc]
    /\ UNCHANGED <<fs, server_data, lastSave>> /\ RaceFrame

\* the end of the with block
RaceClose(c) ==
    /\ savers[c].pc = "close"
    /\ \E content \in FlushOutcomes(fs[get_server_filename(RaceServer)], savers[c].buf) :
          fs' = [fs EXCEPT ![get_server_filename(RaceServer)] = content]
    /\ savers' = [savers EXCEPT ![c].pc = "done"]
    /\ lastSave' = [NoSave EXCEPT !.called = TRUE, !.sid = RaceServer,
                                  !.was_loaded = TRUE, !.pre = savers[c].pre]
    /\ UNCHANGED server_data /\ RaceFrame

RaceBody(c) ==
    \/ RaceEnter(c)
    \/ RaceExists(c)
    \/ RaceCopy(c)
    \/ RaceOpen(c)
    \/ RaceDump(c)
    \/ RaceClose(c)

\* a context waits at the door of save_goals while another is inside
RaceStep_Locked(c) ==
    \/ RaceEnter(c)
    \/ /\ \A d \in Contexts \ {c} : savers[d].pc \notin InsidePcs \ {"exists"}
       /\ RaceBody(c)

\* a step of context c: nothing makes it wait for another context
RaceStep(c) == RaceBody(c)

\* The server's document is loaded and its file written; both contexts are
\* about to run their handler.
InitR ==
    /\ fs = [NoFiles EXCEPT ![get_server_filename(RaceServer)] = Dump(DefaultData)]
    /\ server_data = [NoCache EXCEPT ![RaceServer] = Cached(DefaultData)]
    /\ sent = <<>>
    /\ lastGet = NoGet
    /\ lastSave = NoSave
    /\ savedOk = {}
    /\ cmd = NoCmd
    /\ pending = {}
    /\ savers = [c \in Contexts |-> Idle]
    /\ applied = NoApplication
    /\ tasks = NoTasks

NextR == \E c \in Contexts : RaceStep(c)

SpecRace == InitR /\ [][NextR]_vars

Quiescent == \A c \in Contexts : savers[c].pc = "done"

\* C14 -- save_goals takes no lock: a context that is inside the
\* backup-then-write sequence can always take its next step, whatever step
\* another context of the same server is at.
C14_SavesInterleave ==
    \A c \in DOMAIN savers : savers[c].pc \in InsidePcs => ENABLED RaceStep(c)

\* Both saves have returned; the primary file does not hold the cached
\* document, so the objective stored last is lost on disk, and .backup does
\* not hold what the primary held before it was last opened for writing.
C14_Witness ==
    /\ Quiescent
    /\ fs[Primary(RaceServer)] # Dump(server_data[RaceServer].doc)
    /\ lastSave.called /\ Exists(lastSave.pre)
    /\ fs[Backup(RaceServer)] # lastSave.pre

\* ======================================================== the formatter
\* clean_text and format_section of CompanyAssistant.  A str is a sequence
\* of characters, each a string of length one; the bullet character U+2022
\* is written "bullet".
MaxTokens == 5          \* tokens an input text is made of
MaxLength == 12         \* largest max_field_length tried

NL == "\n"
Bullet == "bullet"
Whitespace == {" ", NL, "\t"}

StartsWith(s, p) == Len(s) >= Len(p) /\ SubSeq(s, 1, Len(p)) = p

\* str.replace(old, new), old not empty
RECURSIVE Replace(_, _, _)
Replace(s, old, new) ==
    IF s = <<>> THEN <<>>
    ELSE IF StartsWith(s, old)
         THEN new \o Replace(SubSeq(s, Len(old) + 1, Len(s)), old, new)
         ELSE <<Head(s)>> \o Replace(Tail(s), old, new)

\* str.lstrip(chars), str.rstrip(chars), str.strip(chars)
RECURSIVE LStrip(_, _)
LStrip(s, cs) ==
    IF s # <<>> /\ Head(s) \in cs THEN LStrip(Tail(s), cs) ELSE s

RECURSIVE RStrip(_, _)
RStrip(s, cs) ==
    IF s # <<>> /\ s[Len(s)] \in cs THEN RStrip(SubSeq(s, 1, Len(s) - 1), cs) ELSE s

StripChars(s, cs) == RStrip(LStrip(s, cs), cs)
Strip(s) == StripChars(s, Whitespace)

\* the index of the first c in s, or 0
RECURSIVE Find(_, _, _)
Find(s, c, i) ==
    IF i > Len(s) THEN 0 ELSE IF s[i] = c THEN i ELSE Find(s, c, i + 1)

\* str.split(c)
RECURSIVE Split(_, _)
Split(s, c) ==
    LET i == Find(s, c, 1)
    IN  IF i = 0 THEN <<s>>
        ELSE <<SubSeq(s, 1, i - 1)>> \o Split(SubSeq(s, i + 1, Len(s)), c)

\* sep.join(parts)
RECURSIVE Join(_, _)
Join(parts, sep) ==
    IF parts = <<>> THEN <<>>
    ELSE IF Len(parts) = 1 THEN parts[1]
    ELSE parts[1] \o sep \o Join(Tail(parts), sep)

RECURSIVE Concat(_)
Concat(parts) == IF parts = <<>> THEN <<>> ELSE Head(parts) \o Concat(Tail(parts))

TextBlockOpen == <<"T", "e", "x", "t", "B", "l", "o", "c", "k", "(", "t", "e", "x", "t", "=", "'">>
TextBlockClose == <<"'", ")">>
ListOpen == <<"[", "T", "e", "x", "t", "B", "l", "o", "c", "k", "(", "t", "e", "x", "t", "=">>
ListClose == <<")", "]">>
EscapedNewline == <<"\\", "n">>
TypeAttribute == <<",", " ", "t", "y", "p", "e", "=", "\"", "t", "e", "x", "t", "\"">>

clean_text(text) ==
    LET t1 == Replace(Replace(text, TextBlockOpen, <<>>), TextBlockClose, <<>>)
        t2 == Replace(Replace(t1, ListOpen, <<>>), ListClose, <<>>)
        t3 == Replace(t2, EscapedNewline, <<NL>>)
        t4 == Replace(t3, TypeAttribute, <<>>)
    IN  StripChars(t4, {"[", "]", "'"})

\* every one-digit marker
SectionMarkers_AnyDigit == {<<d, ".", " ">> : d \in {"0", "1", "2", "3", "4", "5", "6", "7", "8", "9"}}
SectionMarkers == {<<"1", ".", " ">>, <<"2", ".", " ">>, <<"3", ".", " ">>}

\* the section loop without the append after the loop
RECURSIVE SplitSections_NoFlush(_, _, _)
SplitSections_NoFlush(lines, current, sections) ==
    IF lines = <<>> THEN sections
    ELSE LET line == Strip(Head(lines))
         IN  IF line = <<>> THEN SplitSections_NoFlush(Tail(lines), current, sections)
             ELSE IF (\E m \in SectionMarkers : StartsWith(line, m)) /\ current # <<>>
                  THEN SplitSections_NoFlush(Tail(lines), <<line>>,
                                     Append(sections, Join(current, <<NL>>)))
                  ELSE SplitSections_NoFlush(Tail(lines), Append(current, line), sections)
\* for line in text.split('\n'): ... with the lines still to read, the
\* current_section and the sections closed so far
RECURSIVE SplitSections(_, _, _)
SplitSections(lines, current, sections) ==
    IF lines = <<>>
    THEN IF current # <<>> THEN Append(sections, Join(current, <<NL>>)) ELSE sections
    ELSE LET line == Strip(Head(lines))
         IN  IF line = <<>> THEN SplitSections(Tail(lines), current, sections)
             ELSE IF (\E m \in SectionMarkers : StartsWith(line, m)) /\ current # <<>>
                  THEN SplitSections(Tail(lines), <<line>>,
                                     Append(sections, Join(current, <<NL>>)))
                  ELSE SplitSections(Tail(lines), Append(current, line), sections)

\* the bullet normalisation without the branch for '* '
FormatLine_DashOnly(line) ==
    LET l == Strip(line)
    IN  IF StartsWith(l, <<"-", " ">>) \/ StartsWith(l, <<Bullet, " ">>)
        THEN <<Bullet, " ">> \o SubSeq(l, 3, Len(l))
        ELSE line
\* the bullet normalisation of one line of a section's content
FormatLine(line) ==
    LET l == Strip(line)
    IN  IF StartsWith(l, <<"-", " ">>) \/ StartsWith(l, <<Bullet, " ">>)
        THEN <<Bullet, " ">> \o SubSeq(l, 3, Len(l))
        ELSE IF StartsWith(l, <<"*", " ">>)
        THEN <<Bullet, " ">> \o SubSeq(l, 3, Len(l))
        ELSE line

FormatSection(section) ==
    LET i == Find(section, ":", 1)
    IN  IF i # 0
        THEN LET title   == SubSeq(section, 1, i - 1)
                 content == Strip(SubSeq(section, i + 1, Len(section)))
                 lines   == Split(content, NL)
                 formatted_lines == [k \in 1..Len(lines) |-> FormatLine(lines[k])]
             IN  <<"*", "*">> \o Strip(title) \o <<"*", "*", NL>>
                    \o Join(formatted_lines, <<NL>>) \o <<NL, NL>>
        ELSE section \o <<NL, NL>>

\* the packing loop testing the chunk before the section is added to it
RECURSIVE Pack_TestBeforeAdding(_, _, _, _)
Pack_TestBeforeAdding(sections, current_chunk, formatted_chunks, max_field_length) ==
    IF sections = <<>>
    THEN IF current_chunk # <<>>
         THEN Append(formatted_chunks, Strip(current_chunk)) ELSE formatted_chunks
    ELSE LET formatted_section == FormatSection(Head(sections))
         IN  IF Len(current_chunk) > max_field_length
             THEN Pack_TestBeforeAdding(Tail(sections), formatted_section,
                       IF current_chunk # <<>>
                       THEN Append(formatted_chunks, Strip(current_chunk))
                       ELSE formatted_chunks,
                       max_field_length)
             ELSE Pack_TestBeforeAdding(Tail(sections), current_chunk \o formatted_section,
                       formatted_chunks, max_field_length)

\* the packing loop closing the chunk after every section
RECURSIVE Pack_ChunkPerSection(_, _, _, _)
Pack_ChunkPerSection(sections, current_chunk, formatted_chunks, max_field_length) ==
    IF sections = <<>> THEN formatted_chunks
    ELSE Pack_ChunkPerSection(Tail(sections), current_chunk,
              Append(formatted_chunks, Strip(FormatSection(Head(sections)))),
              max_field_length)
\* for section in sections: ... with the sections still to pack, the
\* current_chunk and the formatted_chunks closed so far
RECURSIVE Pack(_, _, _, _)
Pack(sections, current_chunk, formatted_chunks, max_field_length) ==
    IF sections = <<>>
    THEN IF current_chunk # <<>>
         THEN Append(formatted_chunks, Strip(current_chunk)) ELSE formatted_chunks
    ELSE LET formatted_section == FormatSection(Head(sections))
         IN  IF Len(current_chunk \o formatted_section) > max_field_length
             THEN Pack(Tail(sections), formatted_section,
                       IF current_chunk # <<>>
                       THEN Append(formatted_chunks, Strip(current_chunk))
                       ELSE formatted_chunks,
                       max_field_length)
             ELSE Pack(Tail(sections), current_chunk \o formatted_section,
                       formatted_chunks, max_field_length)

SectionsOf(text) == SplitSections(Split(clean_text(text), NL), <<>>, <<>>)

format_section(text, max_field_length) ==
    Pack(SectionsOf(text), <<>>, <<>>, max_field_length)

\* Input texts: up to MaxTokens pieces, each a word, a colon or the start of
\* a numbered line.
Tokens ==
    {<<"a">>, <<":">>, <<NL, "1", ".", " ">>, <<NL, "2", ".", " ">>}

TokenSeqs == UNION {[1..n -> Tokens] : n \in 0..MaxTokens}
FmtInputs == {Concat(ts) : ts \in TokenSeqs}
Lengths == 1..MaxLength

InitFmt ==
    /\ fs = NoFiles
    /\ server_data = NoCache
    /\ sent = <<>>
    /\ lastGet = NoGet
    /\ lastSave = NoSave
    /\ savedOk = {}
    /\ cmd = NoCmd
    /\ pending = {}
    /\ savers = NoSavers
    /\ \E text \in FmtInputs, max \in Lengths :
          applied = [fn |-> "input", text |-> text, max |-> max, out |-> <<>>]
    /\ tasks = NoTasks

\* formatted_chunks = self.format_section(text, max_field_length)
ApplyFormatSection ==
    /\ applied.fn = "input"
    /\ applied' = [applied EXCEPT !.fn = "format_section",
                                  !.out = format_section(applied.text, applied.max)]
    /\ UNCHANGED <<fs, server_data, sent, lastGet, lastSave, savedOk, cmd, pending, savers,
                   tasks>>

NextFmt == ApplyFormatSection

SpecFmt == InitFmt /\ [][NextFmt]_vars

\* The ways to cut n sections into consecutive groups: a cut after section
\* k, for the k of a subset of 1..n-1, and the groups a choice of cuts gives.
GroupsOf(parts, cuts) ==
    LET n      == Len(parts)
        starts == {1} \cup {k + 1 : k \in cuts}
        EndOf(a) == CHOOSE b \in a..n :
                       /\ b = n \/ b \in cuts
                       /\ \A k \in a..(b - 1) : k \notin cuts
        Nth[i \in 1..Cardinality(starts)] ==
            CHOOSE a \in starts : Cardinality({b \in starts : b < a}) = i - 1
    IN  [i \in 1..Cardinality(starts) |-> SubSeq(parts, Nth[i], EndOf(Nth[i]))]

\* C20 -- The chunks format_section returns are the formatted sections of
\* the text, in order, cut into consecutive groups and stripped; a group of
\* two or more sections is at most max_field_length long, trailing
\* separators included, and a chunk longer than max_field_length is one
\* whole section whose own formatted length exceeds max_field_length.
C20_ChunkLengthBound ==
    applied.fn = "format_section" =>
        LET sections  == SectionsOf(applied.text)
            formatted == [k \in 1..Len(sections) |-> FormatSection(sections[k])]
            chunks    == applied.out
        IN  IF formatted = <<>> THEN chunks = <<>>
            ELSE \E cuts \in SUBSET (1..(Len(formatted) - 1)) :
                    LET groups == GroupsOf(formatted, cuts)
                    IN  /\ Len(groups) = Len(chunks)
                        /\ \A i \in 1..Len(groups) :
                              /\ chunks[i] = Strip(Concat(groups[i]))
                              /\ Len(groups[i]) >= 2
                                    => Len(Concat(groups[i])) <= applied.max
                              /\ Len(chunks[i]) > applied.max
                                    => /\ Len(groups[i]) = 1
                                       /\ Len(groups[i][1]) > applied.max

\* Three sections, the second longer than max_field_length on its own, came
\* out as three chunks, the first and the last within the bound.
C20_Witness ==
    /\ applied.fn = "format_section"
    /\ Len(SectionsOf(applied.text)) = 3
    /\ Len(applied.out) = 3
    /\ Len(applied.out[1]) <= applied.max
    /\ Len(applied.out[2]) > applied.max
    /\ Len(applied.out[3]) <= applied.max

\* C22 as stated -- a text shorter than max_field_length comes back as
\* exactly one chunk.
C22_SingleChunkBelowLimit ==
    (applied.fn = "format_section" /\ Len(applied.text) < applied.max)
        => Len(applied.out) = 1

\* C22 -- format_section returns exactly one chunk when, and only when, the
\* text has a section and either has one section only or the formatted
\* sections, headings and separators included, are together at most
\* max_field_length long: the limit is tested on the formatted text, not on
\* the input.
C22_SingleChunkWhenFormattedFits ==
    applied.fn = "format_section" =>
        LET sections  == SectionsOf(applied.text)
            formatted == [k \in 1..Len(sections) |-> FormatSection(sections[k])]
        IN  Len(applied.out) = 1
               <=> /\ sections # <<>>
                   /\ \/ Len(sections) = 1
                      \/ Len(Concat(formatted)) <= applied.max

\* Two sections that fit together came back as one chunk.
C22_Witness ==
    /\ applied.fn = "format_section"
    /\ Len(SectionsOf(applied.text)) = 2
    /\ Len(applied.text) < applied.max
    /\ Len(applied.out) = 1

\* ------------------------------------------------- texts made of lines
\* Input texts of up to MaxLines lines: empty, plain, heading, dash and
\* asterisk bullets, and numbered lines with a marker the code names and one
\* it does not; and the text of the section-boundary example.
MaxLines == 3

DefaultMaxFieldLength == 1024

Lines ==
    { <<>>, <<"a">>, <<"b", ":">>, <<"-", " ", "a">>, <<"*", " ", "a">>,
      <<"1", ".", " ", "a">>, <<"4", ".", " ", "a">> }

LineSeqs == UNION {[1..n -> Lines] : n \in 1..MaxLines}

ExampleText ==
    <<"1", ".", " ", "A", "l", "p", "h", "a", ":", NL, "f", "o", "o", NL, NL, "2", ".", " ", "B", "e", "t", "a", ":", NL, "-", " ", "x", NL, "-", " ", "y">>

LineInputs == {Join(ls, <<NL>>) : ls \in LineSeqs} \cup {ExampleText}

InitLines ==
    /\ fs = NoFiles
    /\ server_data = NoCache
    /\ sent = <<>>
    /\ lastGet = NoGet
    /\ lastSave = NoSave
    /\ savedOk = {}
    /\ cmd = NoCmd
    /\ pending = {}
    /\ savers = NoSavers
    /\ \E text \in LineInputs, max \in Lengths \cup {DefaultMaxFieldLength} :
          applied = [fn |-> "input", text |-> text, max |-> max, out |-> <<>>]
    /\ tasks = NoTasks

SpecLines == InitLines /\ [][NextFmt]_vars

\* a text with nothing but whitespace in it after clean_text
IsBlankText(text) ==
    \A i \in 1..Len(clean_text(text)) : clean_text(text)[i] \in Whitespace

\* C21 as stated -- a non-empty text never comes back as no chunks.
C21_NeverEmpty ==
    (applied.fn = "format_section" /\ applied.text # <<>>) => applied.out # <<>>

\* C21 -- format_section returns no chunk exactly for the texts that hold
\* nothing but whitespace once cleaned; every text with a non-blank line
\* comes back as at least one chunk, for every max_field_length.
C21_EmptyOnlyForBlankText ==
    applied.fn = "format_section" =>
        (applied.out = <<>> <=> IsBlankText(applied.text))

\* A text that starts with an empty line and has a non-blank one, formatted
\* with the smallest max_field_length, came back as at least one chunk.
C21_Witness ==
    /\ applied.fn = "format_section"
    /\ applied.max = 1
    /\ applied.text # <<>> /\ Head(applied.text) = NL
    /\ ~IsBlankText(applied.text)
    /\ applied.out # <<>>

\* the lines of the cleaned text, stripped, the empty ones left out
NotEmpty(line) == line # <<>>

NonBlankLines(text) ==
    LET lines == Split(clean_text(text), NL)
    IN  SelectSeq([k \in 1..Len(lines) |-> Strip(lines[k])], NotEmpty)

\* the lines of each section
LinesOfSections(sections) ==
    [k \in 1..Len(sections) |-> Split(sections[k], NL)]

\* a line that begins with "<N>. " for a number N
IsNumbered(line) ==
    \E n \in 1..(Len(line) - 2) :
        /\ \A i \in 1..n : \E d \in DOMAIN Digits : line[i] = Digits[d]
        /\ line[n + 1] = "." /\ line[n + 2] = " "

\* a line that begins with one of the markers the code names
IsMarked(line) == \E m \in {<<"1", ".", " ">>, <<"2", ".", " ">>, <<"3", ".", " ">>} :
                      StartsWith(line, m)

\* sections are the non-blank lines in input order, cut before every line
\* after the first for which Starts holds and nowhere else
CutBefore(text, Starts(_)) ==
    LET per == LinesOfSections(SectionsOf(text))
    IN  /\ Concat(per) = NonBlankLines(text)
        /\ \A k \in 1..Len(per) :
              /\ per[k] # <<>>
              /\ k >= 2 => Starts(per[k][1])
              /\ \A j \in 2..Len(per[k]) : ~Starts(per[k][j])

\* C23 as stated -- a new section starts at every line that begins with
\* "<N>. " for any number N; every other non-empty line joins the current
\* section in input order and empty lines are dropped.
C23_SectionAtEveryNumberedLine ==
    applied.fn = "format_section" => CutBefore(applied.text, IsNumbered)

\* C23 -- a new section starts at every line that begins with "1. ", "2. "
\* or "3. " and at no other line: a line that begins with another number,
\* like every other non-empty line, joins the current section in input
\* order, and empty lines are dropped.
C23_SectionAtMarkers123 ==
    applied.fn = "format_section" => CutBefore(applied.text, IsMarked)

\* A text whose second line begins with "4. " and whose third begins with
\* "1. " was cut into two sections, the first of two lines.
C23_Witness ==
    /\ applied.fn = "format_section"
    /\ Len(NonBlankLines(applied.text)) = 3
    /\ IsNumbered(NonBlankLines(applied.text)[2])
    /\ ~IsMarked(NonBlankLines(applied.text)[2])
    /\ IsMarked(NonBlankLines(applied.text)[3])
    /\ Len(SectionsOf(applied.text)) = 2
    /\ Len(Split(SectionsOf(applied.text)[1], NL)) = 2

\* the rendering of a section: with a colon, the text before the first
\* colon as a bold heading on a line of its own, then the body with its
\* dash and asterisk bullets rewritten; without one, the section as it is;
\* two newlines after either
Before(section) == SubSeq(section, 1, Find(section, ":", 1) - 1)
After(section)  == SubSeq(section, Find(section, ":", 1) + 1, Len(section))

Rewritten(line) ==
    IF StartsWith(line, <<"-", " ">>) \/ StartsWith(line, <<"*", " ">>)
    THEN <<Bullet, " ">> \o SubSeq(line, 3, Len(line))
    ELSE line

Rendered(section) ==
    IF Find(section, ":", 1) = 0 THEN section \o <<NL, NL>>
    ELSE LET body == Split(Strip(After(section)), NL)
         IN  <<"*", "*">> \o Strip(Before(section)) \o <<"*", "*">> \o <<NL>>
                \o Join([k \in 1..Len(body) |-> Rewritten(body[k])], <<NL>>)
                \o <<NL, NL>>

ExampleChunk ==
    <<"*", "*", "1", ".", " ", "A", "l", "p", "h", "a", "*", "*", NL, "f", "o", "o", NL, NL, "*", "*", "2", ".", " ", "B", "e", "t", "a", "*", "*", NL, Bullet, " ", "x", NL, Bullet, " ", "y">>

\* C24 -- With a max_field_length nothing exceeds, the one chunk returned is
\* the sections in order, each with a colon rendered as the bold heading
\* **<text before the first colon>** followed by its body, every body line
\* that starts with "- " or "* " starting with the bullet character and a
\* space instead; and the text of the example gives the chunk with
\* **1. Alpha**, **2. Beta** and the bullets of x and y.
C24_HeadingsAndBullets ==
    (applied.fn = "format_section" /\ applied.max = DefaultMaxFieldLength) =>
        LET sections == SectionsOf(applied.text)
            rendered == [k \in 1..Len(sections) |-> Rendered(sections[k])]
        IN  /\ sections # <<>> => applied.out = <<Strip(Concat(rendered))>>
            /\ applied.text = ExampleText => applied.out = <<ExampleChunk>>

\* The example text came back as its one chunk.
C24_Witness ==
    /\ applied.fn = "format_section"
    /\ applied.max = DefaultMaxFieldLength
    /\ applied.text = ExampleText
    /\ applied.out = <<ExampleChunk>>

\* ------------------------------------------------------------ clean_text
\* Payloads of up to MaxPayload characters, wrapped the way a list of one
\* text block is written out.
MaxPayload == 3

PayloadChars == {"a", "\\", "n", "'", ")", "["}

Payloads == UNION {[1..n -> PayloadChars] : n \in 0..MaxPayload}

Wrapped(t) == <<"[">> \o TextBlockOpen \o t \o TextBlockClose \o <<"]">>

InitClean ==
    /\ fs = NoFiles
    /\ server_data = NoCache
    /\ sent = <<>>
    /\ lastGet = NoGet
    /\ lastSave = NoSave
    /\ savedOk = {}
    /\ cmd = NoCmd
    /\ pending = {}
    /\ savers = NoSavers
    /\ \E t \in Payloads :
          applied = [fn |-> "input", payload |-> t, text |-> Wrapped(t), out |-> <<>>]
    /\ tasks = NoTasks

\* structured_objective = self.clean_text(str(message.content))
ApplyCleanText ==
    /\ applied.fn = "input"
    /\ applied' = [applied EXCEPT !.fn = "clean_text", !.out = clean_text(applied.text)]
    /\ UNCHANGED <<fs, server_data, sent, lastGet, lastSave, savedOk, cmd, pending, savers,
                   tasks>>

NextClean == ApplyCleanText

SpecClean == InitClean /\ [][NextClean]_vars

\* t holds p at some position
Contains(t, p) ==
    \E i \in 1..(Len(t) - Len(p) + 1) : SubSeq(t, i, i + Len(p) - 1) = p

ContainsWrapperToken(t) ==
    \E p \in {TextBlockOpen, TextBlockClose, ListOpen, ListClose, TypeAttribute} :
        Contains(t, p)

\* C25 -- clean_text of a wrapped payload that holds no wrapper token is
\* the payload with every backslash-n turned into a newline and nothing
\* else changed.
C25_CleanupIsStructural ==
    (applied.fn = "clean_text" /\ ~ContainsWrapperToken(applied.payload))
        => applied.out = Replace(applied.payload, EscapedNewline, <<NL>>)

\* ============================================================ list
\* _list_objectives_impl.  An objective carries the length of the content
\* its field shows, format_section(obj["text"])[0]; a list embed carries its
\* title, the objective ids of its fields in order, and its len().
MaxListed == 5

ListStatuses == {"active", "completed"}
ContentLengths == {15, 2700}
IdOffsets == {0, 7}

ListedObjective(id, status, by, content) ==
    [id |-> id, status |-> status, created_by |-> by, content |-> content]

ListDocs ==
    { [DefaultData EXCEPT !.objectives =
          {ListedObjective(DecimalStr(k + off), st[k], "123456789", c[k]) : k \in 1..n}] :
      <<n, off, st, c>> \in
          UNION { {n} \X IdOffsets \X [1..n -> ListStatuses] \X [1..n -> ContentLengths] :
                  n \in 0..MaxListed } }

\* int(x[0]) of an identifier written by str()
IntOf(id) == CHOOSE n \in 0..99 : DecimalStr(n) = id

\* sorted(server_goals["objectives"].items(), key=lambda x: int(x[0]))
RECURSIVE SortedObjectives(_)
SortedObjectives(objs) ==
    IF objs = {} THEN <<>>
    ELSE LET least == CHOOSE o \in objs : \A p \in objs : IntOf(o.id) <= IntOf(p.id)
         IN  <<least>> \o SortedObjectives(objs \ {least})

StatusText(status) ==
    IF status = "active" THEN "Active"
    ELSE IF status = "completed" THEN "Completed"
    ELSE IF status = "cancelled" THEN "Cancelled"
    ELSE "Unknown"

\* len(field_value): the emoji, ' **Status**: `', the status text, the
\* created and owner lines, the content, and the view_progress hint
FieldValueLen(o) ==
    99 + Len(StatusText(o.status)) + Len(o.created_by) + o.content + Len(o.id)

\* len() of the field name "<emoji> Objective <id>"
FieldNameLen(o) == 12 + Len(o.id)

CountStatus(objs, status) == Cardinality({o \in objs : o.status = status})

\* the first embed: its title and the progress overview
FirstEmbed(objs) ==
    [title  |-> <<"Company Objectives">>,
     fields |-> <<>>,
     length |-> 20 + 68 + Len(DecimalStr(Cardinality(objs)))
                   + Len(DecimalStr(CountStatus(objs, "active")))
                   + Len(DecimalStr(CountStatus(objs, "completed")))]

PageEmbed(page) ==
    [title  |-> <<"Company Objectives (Page ", DecimalStr(page), ")">>,
     fields |-> <<>>,
     length |-> 28 + Len(DecimalStr(page))]

\* current_embed.add_field(name=..., value=field_value, inline=False)
AddField(e, o) ==
    [e EXCEPT !.fields = Append(@, o.id),
              !.length = @ + FieldNameLen(o) + FieldValueLen(o)]

\* ctx.send(embed=current_embed)
ListMsg(e) == [embed |-> TRUE, title |-> e.title, body |-> <<>>, fields |-> e.fields]

\* the loop with objectives_in_current_embed left as it is at a new page
RECURSIVE ListPages_CountNotReset(_, _, _, _, _)
ListPages_CountNotReset(objs, current_embed, page, objectives_in_current_embed, msgs) ==
    IF objs = <<>>
    THEN IF Len(current_embed.fields) > 0 THEN Append(msgs, ListMsg(current_embed)) ELSE msgs
    ELSE LET o == Head(objs)
         IN  IF current_embed.length + FieldValueLen(o) > 5500
                 \/ objectives_in_current_embed >= 3
             THEN ListPages_CountNotReset(Tail(objs), AddField(PageEmbed(page + 1), o), page + 1,
                            objectives_in_current_embed + 1,
                            Append(msgs, ListMsg(current_embed)))
             ELSE ListPages_CountNotReset(Tail(objs), AddField(current_embed, o), page,
                            objectives_in_current_embed + 1, msgs)

\* for obj_id, obj in sorted_objectives.items(): ... with the objectives
\* still to show, and the messages sent so far
RECURSIVE ListPages(_, _, _, _, _)
ListPages(objs, current_embed, page, objectives_in_current_embed, msgs) ==
    IF objs = <<>>
    THEN IF Len(current_embed.fields) > 0 THEN Append(msgs, ListMsg(current_embed)) ELSE msgs
    ELSE LET o == Head(objs)
         IN  IF current_embed.length + FieldValueLen(o) > 5500
                 \/ objectives_in_current_embed >= 3
             THEN ListPages(Tail(objs), AddField(PageEmbed(page + 1), o), page + 1, 1,
                            Append(msgs, ListMsg(current_embed)))
             ELSE ListPages(Tail(objs), AddField(current_embed, o), page,
                            objectives_in_current_embed + 1, msgs)

\* the plain message of the empty state
NoObjectivesYet == Text("No objectives set yet!")
ListErrorEmbed(e) == EmbedMsg("Error Listing Objectives", <<"An error occurred: ", e>>)

ListObjectives(s) ==
    LET g == GetOk(server_data, fs, s)
    IN  /\ cmd' = Cmd("list", s, AuthorOf[s], 0)
        /\ lastGet' = GetRecord(s, 1, server_data, fs, g)
        /\ UNCHANGED others
        /\ IF "objectives" \notin g.ret.present
           THEN Unsaved(g, <<ListErrorEmbed(KeyErrorObjectives)>>)
           ELSE IF g.ret.objectives = {} THEN Unsaved(g, <<NoObjectivesYet>>)
           ELSE Unsaved(g, ListPages(SortedObjectives(g.ret.objectives),
                                     FirstEmbed(g.ret.objectives), 1, 0, <<>>))

\* The guild's file holds a document of objectives; nothing is loaded.
InitList ==
    /\ \E doc \in ListDocs :
          fs = [n \in Names |->
                   IF n \in {get_server_filename(s) : s \in CmdServers}
                   THEN Dump(doc) ELSE Missing]
    /\ server_data = NoCache
    /\ sent = <<>>
    /\ lastGet = NoGet
    /\ lastSave = NoSave
    /\ savedOk = {}
    /\ cmd = NoCmd
    /\ pending = {}
    /\ savers = NoSavers
    /\ applied = NoApplication
    /\ tasks = NoTasks

NextList == \E s \in CmdServers : ListObjectives(s)

SpecList == InitList /\ [][NextList]_vars

\* the objectives of a document in ascending order of the number their
\* identifier writes
InIdOrder(doc) == SortedObjectives(doc.objectives)

Min(a, b) == IF a <= b THEN a ELSE b

\* the objectives of page k when every page but the last takes three
PageOfThree(doc, k) == SubSeq(InIdOrder(doc), 3 * k - 2, Min(3 * k, Len(InIdOrder(doc))))

\* the fields fit: on no page of three does the embed, with the objectives
\* of the page before objective i in it, and the value of objective i
\* together exceed the size the handler allows an embed
FieldsFit(doc) ==
    \A k \in 1..((Cardinality(doc.objectives) + 2) \div 3) :
        \A i \in 1..Len(PageOfThree(doc, k)) :
            LET start  == IF k = 1 THEN FirstEmbed(doc.objectives) ELSE PageEmbed(k)
                before == SubSeq(PageOfThree(doc, k), 1, i - 1)
                sum[j \in 0..Len(before)] ==
                    IF j = 0 THEN start.length
                    ELSE sum[j - 1] + FieldNameLen(before[j]) + FieldValueLen(before[j])
            IN  sum[Len(before)] + FieldValueLen(PageOfThree(doc, k)[i]) <= 5500

\* C26 -- list, for a document of n >= 1 objectives whose fields fit, sends
\* ceil(n/3) embeds; the first is titled Company Objectives and the k-th
\* Company Objectives (Page k); the fields of the k-th are the objectives
\* 3k-2 .. 3k in ascending numeric identifier order, so every objective is
\* shown once and every embed but the last has three fields.
C26_ListPagination ==
    \A s \in CmdServers :
        (cmd.op = "list" /\ cmd.sid = s
           /\ server_data[s].doc.objectives # {} /\ FieldsFit(server_data[s].doc)) =>
            LET doc == server_data[s].doc
                n   == Cardinality(doc.objectives)
            IN  /\ Len(sent) = (n + 2) \div 3
                /\ \A k \in 1..Len(sent) :
                      /\ sent[k].title =
                            IF k = 1 THEN <<"Company Objectives">>
                            ELSE <<"Company Objectives (Page ", DecimalStr(k), ")">>
                      /\ sent[k].fields =
                            [i \in 1..Len(PageOfThree(doc, k)) |-> PageOfThree(doc, k)[i].id]

\* Five objectives, the identifiers 8 to 12, were listed as an embed of
\* three fields and a second page of two, 10 after 9.
C26_Witness ==
    \E s \in CmdServers :
        /\ cmd.op = "list" /\ cmd.sid = s
        /\ Cardinality(server_data[s].doc.objectives) = 5
        /\ FieldsFit(server_data[s].doc)
        /\ \E o \in server_data[s].doc.objectives : o.content = 2700
        /\ Len(sent) = 2
        /\ sent[1].fields = <<"8", "9", "10">>
        /\ sent[2].fields = <<"11", "12">>
        /\ sent[2].title = <<"Company Objectives (Page ", "2", ")">>

\* ==================================================== view_progress
\* _view_progress_impl, on documents of one or two objectives and up to
\* MaxHistory updates, the k-th update written with the text "k".
MaxHistory == 7

HistoryIds == {"1", "2"}

HistoryDocs ==
    { [DefaultData EXCEPT
          !.objectives = {NewObjective(id, "123456789") : id \in ids},
          !.updates = [k \in 1..n |-> NewUpdate(of[k], DecimalStr(k), "123456789", 1)]] :
      <<ids, n, of>> \in
          UNION { {ids} \X {n} \X [1..n -> ids] :
                  ids \in {{"1"}, {"1", "2"}}, n \in 0..MaxHistory } }

\* [u for u in server_goals["updates"] if u["objective_id"] == objective_id]
RECURSIVE UpdatesOf(_, _)
UpdatesOf(updates, objective_id) ==
    IF updates = <<>> THEN <<>>
    ELSE IF Head(updates).objective_id = objective_id
         THEN <<Head(updates)>> \o UpdatesOf(Tail(updates), objective_id)
         ELSE UpdatesOf(Tail(updates), objective_id)

\* updates[:5]
LastFive_FirstFive(updates) ==
    SubSeq(updates, 1, IF Len(updates) > 5 THEN 5 ELSE Len(updates))

\* updates[-5:]
LastFive(updates) ==
    SubSeq(updates, IF Len(updates) > 5 THEN Len(updates) - 4 ELSE 1, Len(updates))

NoUpdatesFound(id) ==
    [embed |-> FALSE, title |-> "",
     body |-> <<"No progress updates found for Objective ", id>>]

\* the embed of the history: a field for each update shown, named after its
\* date and holding its text
HistoryEmbed(id, shown) ==
    [embed |-> TRUE, title |-> <<"Progress History - Objective ", id>>, body |-> <<>>,
     fields |-> [k \in 1..Len(shown) |->
                    [name |-> shown[k].updated_at, value |-> shown[k].text]]]

ViewProgress(s) ==
    \E id \in HistoryIds \cup {UnknownId} :
        LET g == GetOk(server_data, fs, s)
        IN  /\ cmd' = [Cmd("view_progress", s, AuthorOf[s], 0) EXCEPT !.id = id]
            /\ lastGet' = GetRecord(s, 1, server_data, fs, g)
            /\ UNCHANGED others
            /\ IF "objectives" \notin g.ret.present THEN Unsaved(g, <<>>)
               ELSE IF ~HasObjective(g.ret, id) THEN Unsaved(g, <<NotFound(id)>>)
               ELSE IF "updates" \notin g.ret.present THEN Unsaved(g, <<>>)
               ELSE IF UpdatesOf(g.ret.updates, id) = <<>>
                    THEN Unsaved(g, <<NoUpdatesFound(id)>>)
               ELSE Unsaved(g, <<HistoryEmbed(id, LastFive(UpdatesOf(g.ret.updates, id)))>>)

\* The guild's file holds a document of objectives and updates; nothing is
\* loaded.
InitHistory ==
    /\ \E doc \in HistoryDocs :
          fs = [n \in Names |->
                   IF n \in {get_server_filename(s) : s \in CmdServers}
                   THEN Dump(doc) ELSE Missing]
    /\ server_data = NoCache
    /\ sent = <<>>
    /\ lastGet = NoGet
    /\ lastSave = NoSave
    /\ savedOk = {}
    /\ cmd = NoCmd
    /\ pending = {}
    /\ savers = NoSavers
    /\ applied = NoApplication
    /\ tasks = NoTasks

NextHistory == \E s \in CmdServers : ViewProgress(s)

SpecHistory == InitHistory /\ [][NextHistory]_vars

\* the positions in updates of the updates of objective id
PositionsOf(updates, id) == {i \in 1..Len(updates) : updates[i].objective_id = id}

\* C27 -- view_progress of an existing objective with n >= 1 updates sends
\* one embed of min(n, 5) fields: the last five (or all) of the updates
\* whose objective_id is the identifier asked for, in the order they were
\* added; no update of another objective is among them.
C27_ViewLastFive ==
    \A s \in CmdServers :
        LET doc == server_data[s].doc
            at  == PositionsOf(doc.updates, cmd.id)
            n   == Cardinality(at)
            m   == IF n > 5 THEN 5 ELSE n
        IN  (cmd.op = "view_progress" /\ cmd.sid = s /\ HasObjective(doc, cmd.id) /\ n >= 1)
            => /\ Len(sent) = 1
               /\ Len(sent[1].fields) = m
               /\ \A k \in 1..m :
                     \E i \in at :
                        /\ Cardinality({j \in at : j > i}) = m - k
                        /\ sent[1].fields[k].value = doc.updates[i].text

\* Objective 1 has six updates and objective 2 one between them; the five
\* fields shown for objective 1 are its second to its sixth update.
C27_Witness ==
    \E s \in CmdServers :
        /\ cmd.op = "view_progress" /\ cmd.sid = s /\ cmd.id = "1"
        /\ Len(server_data[s].doc.updates) = 7
        /\ Cardinality(PositionsOf(server_data[s].doc.updates, "1")) = 6
        /\ server_data[s].doc.updates[3].objective_id = "2"
        /\ Len(sent) = 1
        /\ [k \in 1..5 |-> sent[1].fields[k].value] = <<"2", "4", "5", "6", "7">>

\* ===================================================== the event loop
\* Two command invocations of one guild as coroutines of the event loop: a
\* coroutine runs from one await to the next without another one running,
\* so a step of a task is the code between two awaits.  A task is idle, has
\* entered its handler (set_objective waits in `async with ctx.typing()`),
\* in the production handler has its awaited create call answered, is at
\* the await of the ctx.send that ends it, or is done.
LoopServer == "123456789"
TaskOps == {"set_objective", "add_progress", "update_status", "clear_all"}
Variants == {"impl", "production"}

IdleTask(variant) ==
    [pc |-> "idle", variant |-> variant, op |-> "none", id |-> NoArg, arg |-> NoArg,
     found |-> 0, stored |-> FALSE, out |-> <<>>]

\* what the code between two awaits leaves: cache and files, the messages
\* it is about to send, whether it stored and saved, and for set_objective
\* the identifier it chose and the number of objectives it found
Segment(cache, files, out, stored, id, found) ==
    [cache |-> cache, fs |-> files, out |-> out, stored |-> stored, id |-> id,
     found |-> found]

ProductionEmbed(id) == EmbedMsg("New Objective Created", <<"Objective ID: ", id>>)
CreatedEmbed(variant, id) ==
    IF variant = "production" THEN ProductionEmbed(id) ELSE NewObjectiveEmbed(id)

\* get_goals, objective_id = str(len(...) + 1), the objective stored under
\* it, save_goals
CreateSegment(cache, files, s, variant) ==
    LET g == GetOk(cache, files, s)
    IN  IF "objectives" \notin g.ret.present
        THEN Segment(g.cache, g.fs, <<ErrorEmbed(KeyErrorObjectives)>>, FALSE, NoArg, 0)
        ELSE LET id     == NextObjectiveId(g.ret.objectives)
                 doc    == [g.ret EXCEPT !.objectives =
                               PutObjective(@, NewObjective(id, AuthorOf[s]))]
                 cache2 == [g.cache EXCEPT ![s] = Cached(doc)]
             IN  Segment(cache2, SaveOk(cache2, g.fs, s).fs,
                         <<CreatedEmbed(variant, id)>>, TRUE, id,
                         Cardinality(g.ret.objectives))

ProgressSegment(cache, files, s, id, text) ==
    LET g == GetOk(cache, files, s)
    IN  IF "objectives" \notin g.ret.present THEN Segment(g.cache, g.fs, <<>>, FALSE, id, 0)
        ELSE IF ~HasObjective(g.ret, id)
             THEN Segment(g.cache, g.fs, <<NotFound(id)>>, FALSE, id, 0)
        ELSE IF "updates" \notin g.ret.present THEN Segment(g.cache, g.fs, <<>>, FALSE, id, 0)
        ELSE LET doc    == [g.ret EXCEPT !.updates =
                               Append(@, NewUpdate(id, text, AuthorOf[s], 1))]
                 cache2 == [g.cache EXCEPT ![s] = Cached(doc)]
             IN  Segment(cache2, SaveOk(cache2, g.fs, s).fs, <<ProgressEmbed(id)>>,
                         TRUE, id, 0)

\* the status changed in the cached document and save_goals not called
StatusSegment_NoSave(cache, files, s, id, status) ==
    LET g == GetOk(cache, files, s)
    IN  IF "objectives" \notin g.ret.present THEN Segment(g.cache, g.fs, <<>>, FALSE, id, 0)
        ELSE IF ~HasObjective(g.ret, id)
             THEN Segment(g.cache, g.fs, <<NotFound(id)>>, FALSE, id, 0)
        ELSE IF Lower(status) \notin valid_statuses
             THEN Segment(g.cache, g.fs, <<InvalidStatus>>, FALSE, id, 0)
        ELSE LET doc == [g.ret EXCEPT !.objectives = SetStatus(@, id, Lower(status))]
             IN  Segment([g.cache EXCEPT ![s] = Cached(doc)], g.fs,
                         <<StatusEmbed(id, status)>>, TRUE, id, 0)

StatusSegment(cache, files, s, id, status) ==
    LET g == GetOk(cache, files, s)
    IN  IF "objectives" \notin g.ret.present THEN Segment(g.cache, g.fs, <<>>, FALSE, id, 0)
        ELSE IF ~HasObjective(g.ret, id)
             THEN Segment(g.cache, g.fs, <<NotFound(id)>>, FALSE, id, 0)
        ELSE IF Lower(status) \notin valid_statuses
             THEN Segment(g.cache, g.fs, <<InvalidStatus>>, FALSE, id, 0)
        ELSE LET doc    == [g.ret EXCEPT !.objectives = SetStatus(@, id, Lower(status))]
                 cache2 == [g.cache EXCEPT ![s] = Cached(doc)]
             IN  Segment(cache2, SaveOk(cache2, g.fs, s).fs,
                         <<StatusEmbed(id, status)>>, TRUE, id, 0)

\* _clear_all_impl called for an administrator
ClearSegment(cache, files, s) ==
    LET cache2 == [cache EXCEPT ![s] = Cached(DefaultData)]
    IN  Segment(cache2, SaveOk(cache2, files, s).fs, <<ClearedEmbed>>, TRUE, NoArg, 0)

\* the code of the task's handler from where it is to its ctx.send
SegmentOf(t, cache, files, s) ==
    IF t.op = "set_objective"
    THEN IF t.arg = CreateRaised
         THEN Segment(cache, files, <<ErrorEmbed(ApiError)>>, FALSE, NoArg, 0)
         ELSE CreateSegment(cache, files, s, t.variant)
    ELSE IF t.op = "add_progress" THEN ProgressSegment(cache, files, s, t.id, t.arg)
    ELSE IF t.op = "update_status" THEN StatusSegment(cache, files, s, t.id, t.arg)
    ELSE ClearSegment(cache, files, s)

\* a step of the loop that is no store call of its own and sends nothing
LoopFrame ==
    /\ lastGet' = NoGet
    /\ lastSave' = NoSave
    /\ UNCHANGED <<pending, savers, applied>>

\* The command is dispatched: the handler is entered with its arguments.
TaskInvoke(c, Ops) ==
    /\ tasks[c].pc = "idle"
    /\ \E op \in Ops, id \in IdInputs, status \in StatusInputs, text \in UpdateTexts :
          /\ op \in {"set_objective", "clear_all"} => id = UnknownId
          /\ op # "update_status" => status = "completed"
          /\ tasks' = [tasks EXCEPT ![c] =
                [@ EXCEPT !.pc = "entered", !.op = op,
                          !.id = IF op \in {"add_progress", "update_status"} THEN id ELSE NoArg,
                          !.arg = IF op = "add_progress" THEN text
                                  ELSE IF op = "update_status" THEN status
                                  ELSE NoArg]]
          /\ cmd' = Cmd(op, LoopServer, AuthorOf[LoopServer], 0)
    /\ sent' = <<>>
    /\ UNCHANGED <<fs, server_data, savedOk>>
    /\ LoopFrame

\* message = await ctx.bot.anthropic.messages.create(...): the production
\* handler is resumed with the answer, or with the exception raised in it
TaskAwaitCreate(c) ==
    /\ tasks[c].pc = "entered"
    /\ tasks[c].variant = "production"
    /\ tasks[c].op = "set_objective"
    /\ \E arg \in {CreateReturned, CreateRaised} :
          /\ tasks' = [tasks EXCEPT ![c] = [@ EXCEPT !.pc = "created", !.arg = arg]]
          /\ cmd' = [Cmd("set_objective", LoopServer, AuthorOf[LoopServer], 1)
                        EXCEPT !.arg = arg]
    /\ sent' = <<>>
    /\ UNCHANGED <<fs, server_data, savedOk>>
    /\ LoopFrame

\* the handler with an await between the objective count it reads and the
\* objective it stores
TaskRun_AwaitAfterRead(c) ==
    /\ tasks[c].op = "set_objective"
    /\ sent' = <<>>
    /\ cmd' = Cmd(tasks[c].op, LoopServer, AuthorOf[LoopServer], 0)
    /\ LoopFrame
    /\ \/ /\ tasks[c].pc \in {"entered", "created"}
          /\ LET g == GetOk(server_data, fs, LoopServer)
             IN  /\ server_data' = g.cache
                 /\ fs' = g.fs
                 /\ tasks' = [tasks EXCEPT ![c] =
                       [@ EXCEPT !.pc = "read",
                                 !.id = NextObjectiveId(g.ret.objectives),
                                 !.found = Cardinality(g.ret.objectives)]]
                 /\ UNCHANGED savedOk
       \/ /\ tasks[c].pc = "read"
          /\ LET g      == GetOk(server_data, fs, LoopServer)
                 doc    == [g.ret EXCEPT !.objectives =
                               PutObjective(@, NewObjective(tasks[c].id, AuthorOf[LoopServer]))]
                 cache2 == [g.cache EXCEPT ![LoopServer] = Cached(doc)]
             IN  /\ server_data' = cache2
                 /\ fs' = SaveOk(cache2, g.fs, LoopServer).fs
                 /\ savedOk' = savedOk \cup {LoopServer}
                 /\ tasks' = [tasks EXCEPT ![c] =
                       [@ EXCEPT !.pc = "send", !.stored = TRUE,
                                 !.out = <<CreatedEmbed(tasks[c].variant, tasks[c].id)>>]]

\* The task runs from where it is to the await of its ctx.send: in
\* _set_objective_impl the create call is a plain call, part of this step.
TaskRun(c) ==
    /\ \/ tasks[c].pc = "entered" /\ ~(tasks[c].variant = "production" /\ tasks[c].op = "set_objective")
       \/ tasks[c].pc = "created"
    /\ \E arg \in {CreateReturned, CreateRaised} :
          LET t == IF tasks[c].op = "set_objective" /\ tasks[c].pc = "entered"
                   THEN [tasks[c] EXCEPT !.arg = arg] ELSE tasks[c]
              r == SegmentOf(t, server_data, fs, LoopServer)
          IN  /\ (tasks[c].op # "set_objective" \/ tasks[c].pc = "created")
                    => arg = CreateReturned
              /\ server_data' = r.cache
              /\ fs' = r.fs
              /\ savedOk' = IF r.stored THEN savedOk \cup {LoopServer} ELSE savedOk
              /\ tasks' = [tasks EXCEPT ![c] =
                    [t EXCEPT !.pc = "send", !.out = r.out, !.stored = r.stored,
                              !.id = IF t.op = "set_objective" THEN r.id ELSE @,
                              !.found = r.found]]
              /\ cmd' = [Cmd(t.op, LoopServer, AuthorOf[LoopServer], 0)
                            EXCEPT !.id = t.id, !.arg = t.arg]
    /\ sent' = <<>>
    /\ LoopFrame

\* await ctx.send(...) returns and the handler with it
TaskSend(c) ==
    /\ tasks[c].pc = "send"
    /\ sent' = tasks[c].out
    /\ tasks' = [tasks EXCEPT ![c] = [@ EXCEPT !.pc = "done"]]
    /\ cmd' = Cmd(tasks[c].op, LoopServer, AuthorOf[LoopServer], 0)
    /\ UNCHANGED <<fs, server_data, savedOk>>
    /\ LoopFrame

OneObjective == [DefaultData EXCEPT !.objectives = {NewObjective("1", "123456789")}]

LoopContents == InitContents \cup {Dump(OneObjective)}

InitTasks(Vs) ==
    /\ \E content \in LoopContents :
          fs = [n \in Names |-> IF n = get_server_filename(LoopServer)
                                THEN content ELSE Missing]
    /\ server_data = NoCache
    /\ sent = <<>>
    /\ lastGet = NoGet
    /\ lastSave = NoSave
    /\ savedOk = {}
    /\ cmd = NoCmd
    /\ pending = {}
    /\ savers = NoSavers
    /\ applied = NoApplication
    /\ \E v \in Vs : tasks = [c \in Contexts |-> IdleTask(v)]

\* Two commands of any of the four kinds that change the document.
InitLoop == InitTasks({"impl"})

NextLoop ==
    \E c \in Contexts :
        \/ TaskInvoke(c, TaskOps)
        \/ TaskRun(c)
        \/ TaskSend(c)

SpecLoop == InitLoop /\ [][NextLoop]_vars

\* Two set_objective commands, of the bot's handler or of the production
\* handler.
InitCreate == InitTasks(Variants)

NextCreate ==
    \E c \in Contexts :
        \/ TaskInvoke(c, {"set_objective"})
        \/ TaskAwaitCreate(c)
        \/ TaskRun(c)
        \/ TaskSend(c)

SpecCreate == InitCreate /\ [][NextCreate]_vars

\* C28 -- Whatever the order in which the event loop runs the steps of two
\* set_objective commands of one guild, every objective a command stored is
\* in the document under the identifier the command chose, the number of
\* objectives it found plus one; two commands never chose the same
\* identifier; and the file holds the document.
C28_AtomicCreation ==
    LET stored == {c \in DOMAIN tasks : tasks[c].stored}
        doc    == server_data[LoopServer].doc
    IN  /\ \A c \in stored :
              /\ tasks[c].id = DecimalStr(tasks[c].found + 1)
              /\ \E o \in doc.objectives : o.id = tasks[c].id
        /\ \A c, d \in stored : c # d => tasks[c].id # tasks[d].id
        /\ Cardinality(ObjectiveIds(doc)) = Cardinality(doc.objectives)
        /\ stored # {} => fs[Primary(LoopServer)] = Dump(doc)

\* Both commands were entered before either ran; both have stored their
\* objective and returned.
C28_Witness ==
    /\ DOMAIN tasks = Contexts
    /\ \A c \in Contexts : tasks[c].pc = "done" /\ tasks[c].stored
    /\ \E c, d \in Contexts : tasks[c].found + 1 = tasks[d].found
    /\ Cardinality(server_data[LoopServer].doc.objectives) >= 2

\* C30 -- With a filesystem that does not fail, in every state the event
\* loop is in between two steps of the handlers (a handler has yielded at
\* an await or has returned), the primary file of every cached guild holds
\* the dump of the guild's cached document.
C30_DiskFollowsMemory ==
    \A s \in Servers :
        server_data[s].loaded => fs[Primary(s)] = Dump(server_data[s].doc)

\* update_status has changed a status and waits at its ctx.send while the
\* other command has been entered and has not run yet; the file holds the
\* changed document.
C30_Witness ==
    /\ DOMAIN tasks = Contexts
    /\ \E c, d \in Contexts :
          /\ tasks[c].pc = "send" /\ tasks[c].op = "update_status" /\ tasks[c].stored
          /\ tasks[d].pc = "entered"
    /\ \E o \in server_data[LoopServer].doc.objectives : o.status = "completed"
    /\ fs[Primary(LoopServer)] = Dump(server_data[LoopServer].doc)
    /\ fs[Primary(LoopServer)] # fs[Backup(LoopServer)]

\* every update of the document names an objective of the document
UpdatesRefer(doc) ==
    \A i \in 1..Len(doc.updates) : doc.updates[i].objective_id \in ObjectiveIds(doc)

\* C29 -- Over every sequence of set_objective, add_progress, update_status
\* and clear_all commands, every update of a guild's document, cached or on
\* file, names an objective of the same document; and an add_progress for
\* an identifier that is no key of objectives sends 'Objective <id> not
\* found!', leaves the updates as they are and does not save.
C29_ReferentialIntegrity ==
    [][\A s \in CmdServers :
         /\ UpdatesRefer(DocumentOf(server_data', fs', s))
         /\ (cmd'.op = "add_progress" /\ cmd'.sid = s
               /\ "objectives" \in lastGet'.ret.present
               /\ cmd'.id \notin ObjectiveIds(lastGet'.ret))
            => /\ sent' = <<NotFound(cmd'.id)>>
               /\ DocumentOf(server_data', fs', s).updates = lastGet'.ret.updates
               /\ ~lastSave'.called]_vars

\* Progress was added to an objective, and an add_progress for an
\* identifier the document does not have was then answered with not found.
C29_Witness ==
    \E s \in CmdServers :
        /\ cmd.op = "add_progress" /\ cmd.sid = s /\ cmd.id = UnknownId
        /\ sent = <<NotFound(UnknownId)>>
        /\ ~lastSave.called
        /\ Len(server_data[s].doc.updates) >= 1
        /\ UpdatesRefer(server_data[s].doc)

====
